---- MODULE Spec2Model ----
(***************************************************************************)
(* Referrer discovery, deduplication and classification of oci-explorer    *)
(* (registry/client.go): InspectImage with its concurrent discovery tasks  *)
(* and the mutex-guarded accumulator, classifyArtifactType and             *)
(* extractAttestationInfo.                                                 *)
(*                                                                         *)
(* Strings that the code matches by substring (artifact types, predicate   *)
(* types, the bundle-content annotation) are sequences of one-character    *)
(* strings, so that strings.ToLower and strings.Contains are computed and  *)
(* not assumed.  Digests, annotation keys and categories are only compared *)
(* for equality and are plain strings.                                     *)
(***************************************************************************)
EXTENDS Integers, Sequences, FiniteSets, TLC

(***************************************************************************)
(* Keywords of classifyArtifactType and extractAttestationInfo.            *)
(***************************************************************************)
kw_signature == <<"s", "i", "g", "n", "a", "t", "u", "r", "e">>
kw_notary == <<"n", "o", "t", "a", "r", "y">>
kw_cosign == <<"c", "o", "s", "i", "g", "n">>
kw_sbom == <<"s", "b", "o", "m">>
kw_cyclonedx == <<"c", "y", "c", "l", "o", "n", "e", "d", "x">>
kw_spdx == <<"s", "p", "d", "x">>
kw_vex == <<"v", "e", "x">>
kw_openvex == <<"o", "p", "e", "n", "v", "e", "x">>
kw_vuln == <<"v", "u", "l", "n">>
kw_scan == <<"s", "c", "a", "n">>
kw_provenance == <<"p", "r", "o", "v", "e", "n", "a", "n", "c", "e">>
kw_slsa == <<"s", "l", "s", "a">>
kw_sigstore_bundle == <<"s", "i", "g", "s", "t", "o", "r", "e", ".", "b", "u", "n", "d", "l", "e">>
kw_message_signature == <<"m", "e", "s", "s", "a", "g", "e", "-", "s", "i", "g", "n", "a", "t", "u", "r", "e">>
kw_attestation == <<"a", "t", "t", "e", "s", "t", "a", "t", "i", "o", "n">>
kw_in_toto == <<"i", "n", "-", "t", "o", "t", "o">>
kw_syft == <<"s", "y", "f", "t">>

(***************************************************************************)
(* Sample artifact types, predicate types and media types (from the tests  *)
(* and the code), and mixed-case fragments to build artifact types from.   *)
(***************************************************************************)
frag_cosign == <<"c", "o", "s", "i", "g", "n">>
frag_Notary == <<"N", "o", "t", "a", "r", "y">>
frag_SBOM == <<"S", "B", "O", "M">>
frag_vex == <<"v", "e", "x">>
frag_OpenVEX == <<"O", "p", "e", "n", "V", "E", "X">>
frag_Scan == <<"S", "c", "a", "n">>
frag_sigstore_bundle == <<"s", "i", "g", "s", "t", "o", "r", "e", ".", "b", "u", "n", "d", "l", "e">>
frag_in_toto == <<"i", "n", "-", "t", "o", "t", "o">>
frag_attestation == <<"a", "t", "t", "e", "s", "t", "a", "t", "i", "o", "n">>
frag_dsse == <<"d", "s", "s", "e">>
at_cosign_sig == <<"a", "p", "p", "l", "i", "c", "a", "t", "i", "o", "n", "/", "v", "n", "d", ".", "d", "e", "v", ".", "c", "o", "s", "i", "g", "n", ".", "a", "r", "t", "i", "f", "a", "c", "t", ".", "s", "i", "g", ".", "v", "1", "+", "j", "s", "o", "n">>
at_notary_sig == <<"a", "p", "p", "l", "i", "c", "a", "t", "i", "o", "n", "/", "v", "n", "d", ".", "c", "n", "c", "f", ".", "n", "o", "t", "a", "r", "y", ".", "s", "i", "g", "n", "a", "t", "u", "r", "e">>
at_spdx == <<"a", "p", "p", "l", "i", "c", "a", "t", "i", "o", "n", "/", "s", "p", "d", "x", "+", "j", "s", "o", "n">>
at_cyclonedx == <<"a", "p", "p", "l", "i", "c", "a", "t", "i", "o", "n", "/", "v", "n", "d", ".", "c", "y", "c", "l", "o", "n", "e", "d", "x", "+", "j", "s", "o", "n">>
at_in_toto == <<"a", "p", "p", "l", "i", "c", "a", "t", "i", "o", "n", "/", "v", "n", "d", ".", "i", "n", "-", "t", "o", "t", "o", "+", "j", "s", "o", "n">>
at_dsse == <<"a", "p", "p", "l", "i", "c", "a", "t", "i", "o", "n", "/", "v", "n", "d", ".", "d", "s", "s", "e", ".", "e", "n", "v", "e", "l", "o", "p", "e", ".", "v", "1", "+", "j", "s", "o", "n">>
at_vuln == <<"a", "p", "p", "l", "i", "c", "a", "t", "i", "o", "n", "/", "v", "n", "d", ".", "s", "e", "c", "u", "r", "i", "t", "y", ".", "v", "u", "l", "n", ".", "r", "e", "p", "o", "r", "t", "+", "j", "s", "o", "n">>
at_unknown == <<"a", "p", "p", "l", "i", "c", "a", "t", "i", "o", "n", "/", "v", "n", "d", ".", "e", "x", "a", "m", "p", "l", "e", ".", "u", "n", "k", "n", "o", "w", "n">>
at_sigstore_bundle == <<"a", "p", "p", "l", "i", "c", "a", "t", "i", "o", "n", "/", "v", "n", "d", ".", "d", "e", "v", ".", "s", "i", "g", "s", "t", "o", "r", "e", ".", "b", "u", "n", "d", "l", "e", ".", "v", "0", ".", "3", "+", "j", "s", "o", "n">>
at_openvex == <<"a", "p", "p", "l", "i", "c", "a", "t", "i", "o", "n", "/", "v", "n", "d", ".", "d", "e", "v", ".", "o", "p", "e", "n", "v", "e", "x", ".", "t", "y", "p", "e", ".", "v", "0", ".", "2", ".", "0">>
at_provenance == <<"a", "p", "p", "l", "i", "c", "a", "t", "i", "o", "n", "/", "v", "n", "d", ".", "e", "x", "a", "m", "p", "l", "e", ".", "p", "r", "o", "v", "e", "n", "a", "n", "c", "e">>
at_simplesigning == <<"a", "p", "p", "l", "i", "c", "a", "t", "i", "o", "n", "/", "v", "n", "d", ".", "d", "e", "v", ".", "c", "o", "s", "i", "g", "n", ".", "s", "i", "m", "p", "l", "e", "s", "i", "g", "n", "i", "n", "g", ".", "v", "1", "+", "j", "s", "o", "n">>
pt_openvex == <<"h", "t", "t", "p", "s", ":", "/", "/", "o", "p", "e", "n", "v", "e", "x", ".", "d", "e", "v", "/", "n", "s">>
pt_spdx == <<"h", "t", "t", "p", "s", ":", "/", "/", "s", "p", "d", "x", ".", "d", "e", "v", "/", "D", "o", "c", "u", "m", "e", "n", "t">>
pt_cyclonedx == <<"h", "t", "t", "p", "s", ":", "/", "/", "c", "y", "c", "l", "o", "n", "e", "d", "x", ".", "o", "r", "g", "/", "b", "o", "m">>
pt_slsa == <<"h", "t", "t", "p", "s", ":", "/", "/", "s", "l", "s", "a", ".", "d", "e", "v", "/", "p", "r", "o", "v", "e", "n", "a", "n", "c", "e", "/", "v", "1">>
pt_vuln == <<"h", "t", "t", "p", "s", ":", "/", "/", "e", "x", "a", "m", "p", "l", "e", ".", "c", "o", "m", "/", "V", "u", "l", "n", "/", "v", "1">>
pt_other == <<"h", "t", "t", "p", "s", ":", "/", "/", "e", "x", "a", "m", "p", "l", "e", ".", "c", "o", "m", "/", "o", "t", "h", "e", "r">>
pt_spdx_vex == <<"h", "t", "t", "p", "s", ":", "/", "/", "e", "x", "a", "m", "p", "l", "e", ".", "c", "o", "m", "/", "s", "p", "d", "x", "-", "v", "e", "x">>
pt_syft == <<"h", "t", "t", "p", "s", ":", "/", "/", "e", "x", "a", "m", "p", "l", "e", ".", "c", "o", "m", "/", "s", "y", "f", "t", "/", "v", "1">>
bc_message_signature == <<"M", "e", "s", "s", "a", "g", "e", "-", "S", "i", "g", "n", "a", "t", "u", "r", "e">>
bc_dsse_envelope == <<"d", "s", "s", "e", "-", "e", "n", "v", "e", "l", "o", "p", "e">>

(***************************************************************************)
(* strings.ToLower and strings.Contains.                                   *)
(***************************************************************************)
LowerOf ==
  [c \in {"A", "B", "C", "D", "E", "F", "G", "H", "I", "J", "K", "L", "M", "N", "O", "P", "Q", "R", "S", "T", "U", "V", "W", "X", "Y", "Z"} |->
     CASE c = "A" -> "a"
       [] c = "B" -> "b"
       [] c = "C" -> "c"
       [] c = "D" -> "d"
       [] c = "E" -> "e"
       [] c = "F" -> "f"
       [] c = "G" -> "g"
       [] c = "H" -> "h"
       [] c = "I" -> "i"
       [] c = "J" -> "j"
       [] c = "K" -> "k"
       [] c = "L" -> "l"
       [] c = "M" -> "m"
       [] c = "N" -> "n"
       [] c = "O" -> "o"
       [] c = "P" -> "p"
       [] c = "Q" -> "q"
       [] c = "R" -> "r"
       [] c = "S" -> "s"
       [] c = "T" -> "t"
       [] c = "U" -> "u"
       [] c = "V" -> "v"
       [] c = "W" -> "w"
       [] c = "X" -> "x"
       [] c = "Y" -> "y"
       [] c = "Z" -> "z"]

ToLower(s) ==
  [i \in 1..Len(s) |-> IF s[i] \in DOMAIN LowerOf THEN LowerOf[s[i]] ELSE s[i]]

Contains(s, sub) ==
  \E i \in 0..(Len(s) - Len(sub)) : SubSeq(s, i + 1, i + Len(sub)) = sub

ContainsAny(s, subs) ==
  \E sub \in subs : Contains(s, sub)

(***************************************************************************)
(* Annotation maps are functions from keys to values; a nil map and an     *)
(* empty map both have the empty domain.  Reading a missing key yields the *)
(* zero value, the empty string.                                           *)
(***************************************************************************)
K_inToto == "in-toto.io/predicate-type"
K_bundlePredicate == "dev.sigstore.bundle.predicateType"
K_predicateType == "predicateType"
K_bundleContent == "dev.sigstore.bundle.content"
K_refType == "vnd.docker.reference.type"
K_refDigest == "vnd.docker.reference.digest"

NoAnnotations == <<>>

Lookup(annotations, key) ==
  IF key \in DOMAIN annotations THEN annotations[key] ELSE <<>>

LookupStr(annotations, key) ==
  IF key \in DOMAIN annotations THEN annotations[key] ELSE ""

Categories ==
  {"signature", "sbom", "attestation", "vex", "vulnerability-scan", "artifact"}

(***************************************************************************)
(* classifyArtifactType (client.go 1427-1496).  The four artifact-type     *)
(* rules, the predicate-type hint, the hint rules, the Sigstore bundle     *)
(* rule, the generic attestation rule and the default, in the code's       *)
(* order.  "" stands for "no rule of this group matched, fall through".    *)
(***************************************************************************)
ArtifactTypeRuleVexFirst(artifactTypeLower) ==
  IF ContainsAny(artifactTypeLower, {kw_signature, kw_notary, kw_cosign}) THEN "signature"
  ELSE IF ContainsAny(artifactTypeLower, {kw_vex, kw_openvex}) THEN "vex"
  ELSE IF ContainsAny(artifactTypeLower, {kw_sbom, kw_cyclonedx, kw_spdx}) THEN "sbom"
  ELSE IF ContainsAny(artifactTypeLower, {kw_vuln, kw_scan}) THEN "vulnerability-scan"
  ELSE ""

ArtifactTypeRule(artifactTypeLower) ==
  IF ContainsAny(artifactTypeLower, {kw_signature, kw_notary, kw_cosign}) THEN "signature"
  ELSE IF ContainsAny(artifactTypeLower, {kw_sbom, kw_cyclonedx, kw_spdx}) THEN "sbom"
  ELSE IF ContainsAny(artifactTypeLower, {kw_vex, kw_openvex}) THEN "vex"
  ELSE IF ContainsAny(artifactTypeLower, {kw_vuln, kw_scan}) THEN "vulnerability-scan"
  ELSE ""

PredicateHintLastWins(annotations) ==
  LET p1 == Lookup(annotations, K_predicateType)
      p2 == IF p1 = <<>> THEN Lookup(annotations, K_bundlePredicate) ELSE p1
      p3 == IF p2 = <<>> THEN Lookup(annotations, K_inToto) ELSE p2
  IN  p3

PredicateHint(annotations) ==
  LET p1 == Lookup(annotations, K_inToto)
      p2 == IF p1 = <<>> THEN Lookup(annotations, K_bundlePredicate) ELSE p1
      p3 == IF p2 = <<>> THEN Lookup(annotations, K_predicateType) ELSE p2
  IN  p3

HintRule(predType) ==
  LET predTypeLower == ToLower(predType)
  IN  IF predType = <<>> THEN ""
      ELSE IF ContainsAny(predTypeLower, {kw_vex, kw_openvex}) THEN "vex"
      ELSE IF ContainsAny(predTypeLower, {kw_sbom, kw_cyclonedx, kw_spdx}) THEN "sbom"
      ELSE IF ContainsAny(predTypeLower, {kw_provenance, kw_slsa}) THEN "attestation"
      ELSE IF Contains(predTypeLower, kw_vuln) THEN "vulnerability-scan"
      ELSE ""

EnvelopeRuleBundleIsAttestation(artifactTypeLower, annotations) ==
  IF ContainsAny(artifactTypeLower, {kw_sigstore_bundle, kw_attestation, kw_in_toto, kw_provenance})
  THEN "attestation"
  ELSE "artifact"

EnvelopeRuleNoDefault(artifactTypeLower, annotations) ==
  IF Contains(artifactTypeLower, kw_sigstore_bundle)
  THEN IF /\ K_bundleContent \in DOMAIN annotations
          /\ Contains(ToLower(annotations[K_bundleContent]), kw_message_signature)
       THEN "signature"
       ELSE "attestation"
  ELSE IF ContainsAny(artifactTypeLower, {kw_attestation, kw_in_toto, kw_provenance})
       THEN "attestation"
       ELSE ""

EnvelopeRule(artifactTypeLower, annotations) ==
  IF Contains(artifactTypeLower, kw_sigstore_bundle)
  THEN IF /\ K_bundleContent \in DOMAIN annotations
          /\ Contains(ToLower(annotations[K_bundleContent]), kw_message_signature)
       THEN "signature"
       ELSE "attestation"
  ELSE IF ContainsAny(artifactTypeLower, {kw_attestation, kw_in_toto, kw_provenance})
       THEN "attestation"
       ELSE "artifact"

classifyEnvelopeFirst(artifactType, annotations) ==
  LET artifactTypeLower == ToLower(artifactType)
      byType == ArtifactTypeRule(artifactTypeLower)
      byHint == HintRule(PredicateHint(annotations))
      byEnvelope == EnvelopeRule(artifactTypeLower, annotations)
  IN  IF byType # "" THEN byType
      ELSE IF byEnvelope # "artifact" THEN byEnvelope
      ELSE IF byHint # "" THEN byHint
      ELSE "artifact"

classifyArtifactType(artifactType, annotations) ==
  LET artifactTypeLower == ToLower(artifactType)
      byType == ArtifactTypeRule(artifactTypeLower)
      byHint == HintRule(PredicateHint(annotations))
  IN  IF byType # "" THEN byType
      ELSE IF byHint # "" THEN byHint
      ELSE EnvelopeRule(artifactTypeLower, annotations)

(***************************************************************************)
(* Inputs of the classifier: artifact types are the sample types and every *)
(* concatenation of at most MaxFrags fragments; annotation maps carry any  *)
(* combination of the three hint keys and the bundle-content key.          *)
(***************************************************************************)
MaxFrags == 2

TypeFrags ==
  {frag_cosign, frag_Notary, frag_SBOM, frag_vex, frag_OpenVEX, frag_Scan,
   frag_sigstore_bundle, frag_in_toto, frag_attestation, frag_dsse}

RECURSIVE Concats(_)
Concats(n) ==
  IF n = 0 THEN {<<>>}
  ELSE LET shorter == Concats(n - 1)
       IN  shorter \cup {s \o f : s \in shorter, f \in TypeFrags}

SampleTypes ==
  {at_cosign_sig, at_notary_sig, at_spdx, at_cyclonedx, at_in_toto, at_dsse, at_vuln,
   at_unknown, at_sigstore_bundle, at_openvex, at_provenance}

ArtifactTypes == SampleTypes \cup Concats(MaxFrags)

Absent == <<"(absent)">>

MapOf(keys, val) ==
  [k \in {x \in keys : val[x] # Absent} |-> val[k]]

AnnotationSets ==
  LET keys == {K_inToto, K_bundlePredicate, K_predicateType, K_bundleContent}
  IN  {MapOf(keys, K_inToto :> a @@ K_bundlePredicate :> b @@ K_predicateType :> c
                   @@ K_bundleContent :> d) :
         a \in {Absent, <<>>, pt_slsa, pt_spdx_vex, pt_other},
         b \in {Absent, pt_openvex},
         c \in {Absent, pt_cyclonedx, pt_vuln},
         d \in {Absent, bc_message_signature, bc_dsse_envelope}}

(***************************************************************************)
(* Referrer (client.go 129-137) and the descriptors the registry returns.  *)
(* Digests and media types are only compared for equality.                 *)
(***************************************************************************)
NoSignatureInfo == "nil"

Referrer(type, mediaType, digest, size, artifactType, annotations) ==
  [Type |-> type, MediaType |-> mediaType, Digest |-> digest, Size |-> size,
   ArtifactType |-> artifactType, Annotations |-> annotations,
   SignatureInfo |-> NoSignatureInfo]

Fail == [ok |-> FALSE]

DigestsOf(rs) == {rs[i].Digest : i \in 1..Len(rs)}

TopDigest == "sha256:top"
P1 == "sha256:platform1"
P2 == "sha256:platform2"
A1 == "sha256:attestation1"
X1 == "sha256:artifact1"
R1 == "sha256:referrer1"
L1 == "sha256:layer1"
L2 == "sha256:layer2"
L3 == "sha256:layer3"
T1 == "sha256:cosignatt"

mt_manifest == "application/vnd.oci.image.manifest.v1+json"
mt_layer == "application/vnd.in-toto+json"

WithAnnotation(annotations, key, value) ==
  (key :> value) @@ annotations

(***************************************************************************)
(* extractAttestationInfo (client.go 1210-1339).  resp is what fetching    *)
(* and parsing the attestation manifest gives: Fail or the manifest.  Each *)
(* layer is tested by three independent keyword checks, in the code's      *)
(* order; the generic referrer is added when no layer produced one.        *)
(***************************************************************************)
LayerPredicateType(layer) ==
  IF K_inToto \in DOMAIN layer.Annotations THEN layer.Annotations[K_inToto]
  ELSE IF K_predicateType \in DOMAIN layer.Annotations THEN layer.Annotations[K_predicateType]
  ELSE <<>>

LayerReferrerOfManifest(type, layer, predicateType, indexAnnotations) ==
  Referrer(type, layer.MediaType, A1, 99, predicateType,
           WithAnnotation(indexAnnotations, K_inToto, predicateType))

LayerReferrer(type, layer, predicateType, indexAnnotations) ==
  Referrer(type, layer.MediaType, layer.Digest, layer.Size, predicateType,
           WithAnnotation(indexAnnotations, K_inToto, predicateType))

LayerReferrers(layer, indexAnnotations) ==
  LET predicateType == LayerPredicateType(layer)
      predicateLower == ToLower(predicateType)
      sbom == IF ContainsAny(predicateLower, {kw_spdx, kw_cyclonedx, kw_sbom, kw_syft})
              THEN <<LayerReferrer("sbom", layer, predicateType, indexAnnotations)>>
              ELSE <<>>
      vex == IF ContainsAny(predicateLower, {kw_vex, kw_openvex})
             THEN <<LayerReferrer("vex", layer, predicateType, indexAnnotations)>>
             ELSE <<>>
      att == IF ContainsAny(predicateLower, {kw_provenance, kw_slsa})
             THEN <<LayerReferrer("attestation", layer, predicateType, indexAnnotations)>>
             ELSE <<>>
  IN  sbom \o vex \o att

RECURSIVE AllLayerReferrers(_, _)
AllLayerReferrers(layers, indexAnnotations) ==
  IF layers = <<>> THEN <<>>
  ELSE LayerReferrers(Head(layers), indexAnnotations)
         \o AllLayerReferrers(Tail(layers), indexAnnotations)

GenericAttestation(manifest, digest, size, indexAnnotations) ==
  Referrer("attestation", manifest.MediaType, digest, size, kw_attestation, indexAnnotations)

extractWithoutFallback(resp, digest, size, indexAnnotations) ==
  IF ~resp.ok THEN [err |-> TRUE, referrers |-> <<>>]
  ELSE [err |-> FALSE, referrers |-> AllLayerReferrers(resp.Layers, indexAnnotations)]

extractAttestationInfo(resp, digest, size, indexAnnotations) ==
  IF ~resp.ok THEN [err |-> TRUE, referrers |-> <<>>]
  ELSE LET found == AllLayerReferrers(resp.Layers, indexAnnotations)
       IN  [err |-> FALSE,
            referrers |-> IF Len(found) = 0
                          THEN <<GenericAttestation(resp, digest, size, indexAnnotations)>>
                          ELSE found]

(***************************************************************************)
(* Attestation manifests the registry may serve: at most MaxLayers layers  *)
(* from a pool with SPDX, SLSA and OpenVEX predicates (under either        *)
(* annotation key), a predicate naming two kinds, and layers without one.  *)
(***************************************************************************)
MaxLayers == 2

Layer(digest, size, annotations) ==
  [MediaType |-> mt_layer, Digest |-> digest, Size |-> size, Annotations |-> annotations]

SpdxLayer == Layer(L1, 11, K_inToto :> pt_spdx)
SlsaLayer == Layer(L2, 22, K_inToto :> pt_slsa)
VexLayer == Layer(L3, 33, K_predicateType :> pt_openvex)
PlainLayer == Layer(L1, 11, NoAnnotations)

LayerPool ==
  {SpdxLayer, SlsaLayer, VexLayer, PlainLayer,
   Layer(L3, 33, K_inToto :> pt_spdx_vex),
   Layer(L3, 33, K_inToto :> pt_syft),
   Layer(L2, 22, K_inToto :> <<>> @@ K_predicateType :> pt_spdx)}

RECURSIVE SeqsUpTo(_, _)
SeqsUpTo(S, n) ==
  IF n = 0 THEN {<<>>}
  ELSE LET shorter == SeqsUpTo(S, n - 1)
       IN  shorter \cup {Append(s, x) : s \in shorter, x \in S}

AttestationManifests ==
  {[ok |-> TRUE, MediaType |-> mt_manifest, Layers |-> ls] : ls \in SeqsUpTo(LayerPool, MaxLayers)}

(***************************************************************************)
(* fetchReferrersViaAPI and fetchReferrers (client.go 720-906).  apiResp   *)
(* is the answer of the Referrers API, tagResp what the fallback tag       *)
(* sha256-<hex> resolves to: Fail or the list of descriptors.  Every       *)
(* descriptor is classified by classifyArtifactType.  The result records   *)
(* the returned error and whether the fallback tag was fetched.            *)
(***************************************************************************)
Descriptor(mediaType, digest, size, artifactType, annotations) ==
  [MediaType |-> mediaType, Digest |-> digest, Size |-> size,
   ArtifactType |-> artifactType, Annotations |-> annotations]

ToReferrers(entries) ==
  [i \in 1..Len(entries) |->
     Referrer(classifyArtifactType(entries[i].ArtifactType, entries[i].Annotations),
              entries[i].MediaType, entries[i].Digest, entries[i].Size,
              entries[i].ArtifactType, entries[i].Annotations)]

fetchReferrersViaAPI(apiResp) ==
  IF ~apiResp.ok THEN [err |-> TRUE, referrers |-> <<>>]
  ELSE [err |-> FALSE, referrers |-> ToReferrers(apiResp.Manifests)]

FetchResult(referrers, err, tagFetched) ==
  [referrers |-> referrers, err |-> err, tagFetched |-> tagFetched]

NoFetch == FetchResult(<<>>, FALSE, FALSE)

fetchReferrersNoFallbackOnEmpty(apiResp, tagResp) ==
  LET api == fetchReferrersViaAPI(apiResp)
  IN  IF ~api.err THEN FetchResult(api.referrers, FALSE, FALSE)
      ELSE IF ~tagResp.ok THEN FetchResult(<<>>, FALSE, TRUE)
      ELSE FetchResult(ToReferrers(tagResp.Manifests), FALSE, TRUE)

fetchReferrers(apiResp, tagResp) ==
  LET api == fetchReferrersViaAPI(apiResp)
  IN  IF ~api.err /\ Len(api.referrers) > 0 THEN FetchResult(api.referrers, FALSE, FALSE)
      ELSE IF ~tagResp.ok THEN FetchResult(<<>>, FALSE, TRUE)
      ELSE FetchResult(ToReferrers(tagResp.Manifests), FALSE, TRUE)

(***************************************************************************)
(* fetchCosignTagArtifacts (client.go 908-965): the .sig tag gives one     *)
(* signature referrer, the .att tag the referrers of its manifest; both    *)
(* are linked to the probed digest.                                        *)
(***************************************************************************)
fetchCosignTagArtifactsAllOrNothing(digest, sigDesc, attDesc, attManifest) ==
  LET sig == <<Referrer("signature", sigDesc.MediaType, sigDesc.Digest, sigDesc.Size,
                        at_simplesigning, K_refDigest :> digest)>>
      ext == extractAttestationInfo(attManifest, attDesc.Digest, attDesc.Size,
                                    K_refDigest :> digest)
  IN  IF sigDesc.ok /\ attDesc.ok /\ ~ext.err THEN sig \o ext.referrers ELSE <<>>

fetchCosignTagArtifacts(digest, sigDesc, attDesc, attManifest) ==
  LET sig == IF sigDesc.ok
             THEN <<Referrer("signature", sigDesc.MediaType, sigDesc.Digest, sigDesc.Size,
                             at_simplesigning, K_refDigest :> digest)>>
             ELSE <<>>
      ext == extractAttestationInfo(attManifest, attDesc.Digest, attDesc.Size,
                                    K_refDigest :> digest)
      att == IF attDesc.ok /\ ~ext.err THEN ext.referrers ELSE <<>>
  IN  sig \o att

(***************************************************************************)
(* What the registry may answer to InspectImage's calls.                   *)
(***************************************************************************)
MaxManifests == 2
MaxResp == 1

IndexManifest(digest, platform, artifactType, annotations, size) ==
  [MediaType |-> mt_manifest, Digest |-> digest, Size |-> size, Platform |-> platform,
   Annotations |-> annotations, ArtifactType |-> artifactType]

NoPlatform == "nil"

AttestationEntry ==
  IndexManifest(A1, "unknown/unknown", <<>>,
                K_refType :> "attestation-manifest" @@ K_refDigest :> P1, 99)

ManifestPool ==
  {IndexManifest(P1, "linux/amd64", <<>>, NoAnnotations, 50),
   IndexManifest(P2, "linux/arm64", <<>>, NoAnnotations, 50),
   AttestationEntry,
   IndexManifest(X1, NoPlatform, at_spdx, NoAnnotations, 60)}

IndexShapes == SeqsUpTo(ManifestPool, MaxManifests)

EntryPool ==
  {Descriptor(mt_manifest, R1, 10, at_cosign_sig, NoAnnotations),
   Descriptor(mt_manifest, R1, 10, at_dsse, K_inToto :> pt_openvex),
   Descriptor(mt_manifest, A1, 99, at_in_toto, NoAnnotations)}

ReferrerLists ==
  {Fail} \cup {[ok |-> TRUE, Manifests |-> es] : es \in SeqsUpTo(EntryPool, MaxResp)}

InspectLayerPool == {SpdxLayer, SlsaLayer}

InspectAttestations ==
  {Fail} \cup {[ok |-> TRUE, MediaType |-> mt_manifest, Layers |-> ls] :
                 ls \in SeqsUpTo(InspectLayerPool, MaxLayers)}

CosignAttestations ==
  {Fail,
   [ok |-> TRUE, MediaType |-> mt_manifest, Layers |-> <<>>],
   [ok |-> TRUE, MediaType |-> mt_manifest,
    Layers |-> <<VexLayer>>]}

TagDescriptors(digests) ==
  {Fail} \cup {[ok |-> TRUE, MediaType |-> mt_manifest, Digest |-> d, Size |-> 70] :
                 d \in digests}


(***************************************************************************)
(* Blob contents.  A byte string is its formatting and the JSON value it   *)
(* spells ("invalid" when it is not JSON, "empty" for no bytes).  A JSON   *)
(* string is plain text or the standard base64 encoding of a byte string.  *)
(***************************************************************************)
JInvalid == [t |-> "invalid"]
JMissing == [t |-> "missing"]
JNull == [t |-> "null"]
JStr(text) == [t |-> "str", enc |-> "text", text |-> text]
JNum(n) == [t |-> "num", n |-> n]
JArr(items) == [t |-> "arr", items |-> items]
JObj(f) == [t |-> "obj", f |-> f]

Bytes(form, v) == [form |-> form, v |-> v]

NoBytes == Bytes("compact", [t |-> "empty"])

HasBytes(b) == b.v.t # "empty"

Base64Encode(b) == [t |-> "str", enc |-> "base64", of |-> b]

Base64Decode(s) ==
  IF s.enc = "base64" THEN [ok |-> TRUE, bytes |-> s.of]
  ELSE IF s.text = "" THEN [ok |-> TRUE, bytes |-> NoBytes]
  ELSE [ok |-> FALSE, bytes |-> NoBytes]

(***************************************************************************)
(* encoding/json as the code uses it: a key matches a struct field exactly *)
(* or up to letter case; null leaves a field untouched; a value of another *)
(* type than the field's is an error; json.RawMessage keeps the bytes of   *)
(* whatever value is there; json.Indent re-formats.                        *)
(***************************************************************************)
KeyFold == ("Predicate" :> "predicate" @@ "Payload" :> "payload")

Field(v, name) ==
  IF v.t # "obj" THEN JMissing
  ELSE LET ks == {k \in DOMAIN v.f : k = name \/ (k \in DOMAIN KeyFold /\ KeyFold[k] = name)}
       IN  IF ks = {} THEN JMissing ELSE v.f[CHOOSE k \in ks : TRUE]

DecodeError(b, kinds) ==
  \/ b.v.t \notin {"obj", "null"}
  \/ \E k \in DOMAIN kinds : Field(b.v, k).t \notin {kinds[k], "null", "missing"}

StringField(b, name) ==
  LET f == Field(b.v, name) IN IF f.t = "str" THEN f ELSE JStr("")

RawField(b, name) ==
  LET f == Field(b.v, name) IN IF f.t = "missing" THEN NoBytes ELSE Bytes(b.form, f)

Indent(b) == Bytes("indented", b.v)

(***************************************************************************)
(* VEXDocument (client.go 1064-1094) and its decoding from bytes.          *)
(***************************************************************************)
NoDoc == [ID |-> "", Version |-> 0, Statements |-> <<>>, parsed |-> FALSE]

VEXKinds == ("@id" :> "str" @@ "version" :> "num" @@ "statements" :> "arr")

VEXStatementKinds == ("status" :> "str")

VEXDocument(b) ==
  LET id == StringField(b, "@id")
      version == Field(b.v, "version")
      statements == Field(b.v, "statements")
  IN  [ID |-> IF id.enc = "text" THEN id.text ELSE "(base64)",
       Version |-> IF version.t = "num" THEN version.n ELSE 0,
       Statements |-> IF statements.t = "arr"
                      THEN [i \in 1..Len(statements.items) |->
                              [Status |-> StringField(Bytes(b.form, statements.items[i]), "status").text]]
                      ELSE <<>>,
       parsed |-> TRUE]

ParseVEXDocument(b) ==
  LET statements == Field(b.v, "statements")
  IN  IF \/ DecodeError(b, VEXKinds)
         \/ /\ statements.t = "arr"
            /\ \E i \in 1..Len(statements.items) :
                 DecodeError(Bytes(b.form, statements.items[i]), VEXStatementKinds)
      THEN [err |-> "failed to parse VEX document", doc |-> NoDoc]
      ELSE [err |-> "", doc |-> VEXDocument(b)]

(***************************************************************************)
(* fetchAndParseVEXBlob (client.go 1136-1207): the unwrap step (1160-1198) *)
(* and the parse of what it yields.  blobResp is what fetching the blob    *)
(* gives: Fail or the bytes.                                               *)
(***************************************************************************)
VEXEnvelopeKinds ==
  ("_type" :> "str" @@ "predicateType" :> "str" @@ "payloadType" :> "str" @@ "payload" :> "str")

UnwrapInner(decoded) ==
  LET predicate == RawField(decoded, "predicate")
  IN  IF ~DecodeError(decoded, <<>>) /\ HasBytes(predicate) THEN predicate ELSE decoded

UnwrapVEXPayloadFirst(data) ==
  IF DecodeError(data, VEXEnvelopeKinds) THEN [err |-> "", vexData |-> data]
  ELSE LET predicate == RawField(data, "predicate")
           payload == StringField(data, "payload")
           decoded == Base64Decode(payload)
       IN  IF payload # JStr("")
           THEN IF ~decoded.ok
                THEN [err |-> "failed to decode DSSE payload", vexData |-> NoBytes]
                ELSE [err |-> "", vexData |-> UnwrapInner(decoded.bytes)]
           ELSE IF HasBytes(predicate) THEN [err |-> "", vexData |-> predicate]
           ELSE [err |-> "", vexData |-> data]

UnwrapVEXNoDsse(data) ==
  IF DecodeError(data, VEXEnvelopeKinds) THEN [err |-> "", vexData |-> data]
  ELSE LET predicate == RawField(data, "predicate")
       IN  [err |-> "", vexData |-> IF HasBytes(predicate) THEN predicate ELSE data]

UnwrapVEX(data) ==
  IF DecodeError(data, VEXEnvelopeKinds) THEN [err |-> "", vexData |-> data]
  ELSE LET predicate == RawField(data, "predicate")
           payload == StringField(data, "payload")
           decoded == Base64Decode(payload)
       IN  IF HasBytes(predicate) THEN [err |-> "", vexData |-> predicate]
           ELSE IF payload # JStr("")
           THEN IF ~decoded.ok
                THEN [err |-> "failed to decode DSSE payload", vexData |-> NoBytes]
                ELSE [err |-> "", vexData |-> UnwrapInner(decoded.bytes)]
           ELSE [err |-> "", vexData |-> data]

ContentResult(err, fetched, data, doc) ==
  [err |-> err, fetched |-> fetched, data |-> data, doc |-> doc]

fetchAndParseVEXBlob(blobResp, digest) ==
  IF ~blobResp.ok THEN ContentResult("failed to fetch VEX blob", digest, NoBytes, NoDoc)
  ELSE LET unwrapped == UnwrapVEX(blobResp.data)
           parsed == ParseVEXDocument(unwrapped.vexData)
       IN  IF unwrapped.err # "" THEN ContentResult(unwrapped.err, digest, NoBytes, NoDoc)
           ELSE ContentResult(parsed.err, digest, unwrapped.vexData, parsed.doc)

(***************************************************************************)
(* FetchVEXContent (client.go 1096-1132) and FetchSBOMContent (968-1061).  *)
(* manifestResp is what fetching the manifest at digest gives, blobResp    *)
(* what fetching the one blob the call asks for gives.                     *)
(***************************************************************************)
FirstLayer(hits) == IF hits = {} THEN 0 ELSE CHOOSE i \in hits : \A j \in hits : i <= j

VexPredicateType(layer) ==
  IF Lookup(layer.Annotations, K_inToto) # <<>> THEN Lookup(layer.Annotations, K_inToto)
  ELSE Lookup(layer.Annotations, K_predicateType)

IsVexLayer(layer) == ContainsAny(ToLower(VexPredicateType(layer)), {kw_vex, kw_openvex})

VexLayers(layers) == {i \in 1..Len(layers) : IsVexLayer(layers[i])}

FetchVEXContent(manifestResp, blobResp, digest) ==
  LET hit == IF manifestResp.ok THEN FirstLayer(VexLayers(manifestResp.Layers)) ELSE 0
  IN  IF hit > 0 THEN fetchAndParseVEXBlob(blobResp, manifestResp.Layers[hit].Digest)
      ELSE fetchAndParseVEXBlob(blobResp, digest)

SbomPredicateType(layer) == Lookup(layer.Annotations, K_inToto)

IsSbomLayer(layer) ==
  ContainsAny(ToLower(SbomPredicateType(layer)), {kw_spdx, kw_cyclonedx, kw_sbom, kw_syft})

SbomLayers(layers) == {i \in 1..Len(layers) : IsSbomLayer(layers[i])}

SBOMEnvelopeKinds == ("_type" :> "str" @@ "predicateType" :> "str")

UnwrapSBOM(data) ==
  LET predicate == RawField(data, "predicate")
  IN  IF ~DecodeError(data, SBOMEnvelopeKinds) /\ HasBytes(predicate)
      THEN Indent(predicate)
      ELSE data

FetchSBOMContent(manifestResp, blobResp, digest) ==
  IF ~manifestResp.ok
  THEN ContentResult("failed to fetch attestation manifest", "", NoBytes, NoDoc)
  ELSE LET hit == FirstLayer(SbomLayers(manifestResp.Layers))
       IN  IF hit = 0
           THEN ContentResult("no SBOM layer found in attestation manifest", "", NoBytes, NoDoc)
           ELSE IF ~blobResp.ok
           THEN ContentResult("failed to fetch layer", manifestResp.Layers[hit].Digest,
                              NoBytes, NoDoc)
           ELSE ContentResult("", manifestResp.Layers[hit].Digest,
                              UnwrapSBOM(blobResp.data), NoDoc)

(***************************************************************************)
(* Blobs the registry may serve: two VEX documents, each raw, as the       *)
(* predicate of an in-toto statement and in a DSSE envelope around that    *)
(* statement, and byte strings from which nothing can be unwrapped.        *)
(***************************************************************************)
VexDocs ==
  {Bytes("compact", JObj("@id" :> JStr("vex-1") @@ "version" :> JNum(1)
                         @@ "statements" :> JArr(<<JObj("status" :> JStr("not_affected"))>>))),
   Bytes("indented", JObj("@id" :> JStr("vex-2") @@ "statements" :> JArr(<<>>)))}

InTotoStatement(predicate) ==
  Bytes(predicate.form, JObj("_type" :> JStr("https://in-toto.io/Statement/v1")
                             @@ "predicateType" :> JStr("https://openvex.dev/ns")
                             @@ "predicate" :> predicate.v))

DSSEEnvelope(payload) ==
  Bytes("compact", JObj("payloadType" :> JStr("application/vnd.in-toto+json")
                        @@ "payload" :> Base64Encode(payload)))

Encodings(doc) == {doc, InTotoStatement(doc), DSSEEnvelope(InTotoStatement(doc))}

Garbage == Bytes("compact", JInvalid)

OddBlobs ==
  {Garbage,
   Bytes("compact", JArr(<<>>)),
   Bytes("compact", JNull),
   Bytes("compact", JObj("payloadType" :> JStr("text/plain") @@ "payload" :> JStr("not base64!"))),
   Bytes("compact", JObj("payload" :> JNum(7))),
   Bytes("compact", JObj("Predicate" :> JObj("@id" :> JStr("vex-3")))),
   Bytes("compact", JObj("@id" :> JStr("vex-4") @@ "version" :> JStr("one"))),
   Bytes("compact", JObj("predicate" :> JObj("@id" :> JStr("vex-6"))
                         @@ "payload" :> Base64Encode(Bytes("compact", JObj("@id" :> JStr("vex-7")))))),
   DSSEEnvelope(Garbage),
   DSSEEnvelope(Bytes("compact", JObj("@id" :> JStr("vex-5"))))}

Blobs == UNION {Encodings(doc) : doc \in VexDocs} \cup OddBlobs

BlobResponses == {Fail} \cup {[ok |-> TRUE, data |-> b] : b \in Blobs}

(***************************************************************************)
(* extractSignatureInfo (client.go 1341-1425).  resp is what fetching the  *)
(* signature manifest gives: Fail, bytes that are not a JSON manifest, or  *)
(* the manifest's layers.  A certificate annotation is empty, text without *)
(* a PEM block, a PEM block that is not a certificate, or a certificate.   *)
(***************************************************************************)
K_certificate == "dev.sigstore.cosign/certificate"

oidSigstoreIssuerV1 == "1.3.6.1.4.1.57264.1.1"
oidSigstoreIssuerV2 == "1.3.6.1.4.1.57264.1.8"

Certificate(emails, uris, extensions) ==
  [EmailAddresses |-> emails, URIs |-> uris, Extensions |-> extensions]

NoCertificate == Certificate(<<>>, <<>>, <<>>)

PEM(text, der, cert) == [text |-> text, der |-> der, cert |-> cert]

EmptyPEM == PEM("empty", FALSE, NoCertificate)

SignatureInfo(identity, issuer) == [present |-> TRUE, Identity |-> identity, Issuer |-> issuer]

AbsentInfo == [present |-> FALSE, Identity |-> "", Issuer |-> ""]

SignatureResult(info, err) == [info |-> info, err |-> err]

NoSignature == SignatureResult(AbsentInfo, "")

HasCertificate(layer) == K_certificate \in DOMAIN layer.Annotations

CertificatePEM(layers) ==
  LET hit == FirstLayer({i \in 1..Len(layers) : HasCertificate(layers[i])})
  IN  IF hit = 0 THEN EmptyPEM ELSE layers[hit].Annotations[K_certificate]

IdentityUriFirst(cert) ==
  IF Len(cert.URIs) > 0 THEN cert.URIs[1]
  ELSE IF Len(cert.EmailAddresses) > 0 THEN cert.EmailAddresses[1]
  ELSE ""

Identity(cert) ==
  IF Len(cert.EmailAddresses) > 0 THEN cert.EmailAddresses[1]
  ELSE IF Len(cert.URIs) > 0 THEN cert.URIs[1]
  ELSE ""

IsIssuerExtension(ext) == ext.Id \in {oidSigstoreIssuerV1, oidSigstoreIssuerV2}

Issuer(cert) ==
  LET hit == FirstLayer({i \in 1..Len(cert.Extensions) : IsIssuerExtension(cert.Extensions[i])})
  IN  IF hit = 0 THEN "" ELSE cert.Extensions[hit].Value.s

InfoOf(cert) ==
  IF Identity(cert) = "" /\ Issuer(cert) = "" THEN SignatureResult(AbsentInfo, "")
  ELSE SignatureResult(SignatureInfo(Identity(cert), Issuer(cert)), "")

extractSignatureInfoLenient(resp) ==
  IF ~resp.ok THEN SignatureResult(AbsentInfo, "failed to fetch signature manifest")
  ELSE IF ~resp.json THEN SignatureResult(AbsentInfo, "")
  ELSE LET certPEM == CertificatePEM(resp.Layers)
       IN  IF certPEM.text # "pem" \/ ~certPEM.der THEN SignatureResult(AbsentInfo, "")
           ELSE InfoOf(certPEM.cert)

extractSignatureInfo(resp) ==
  IF ~resp.ok THEN SignatureResult(AbsentInfo, "failed to fetch signature manifest")
  ELSE IF ~resp.json THEN SignatureResult(AbsentInfo, "failed to parse signature manifest")
  ELSE LET certPEM == CertificatePEM(resp.Layers)
       IN  IF certPEM.text = "empty" THEN SignatureResult(AbsentInfo, "")
           ELSE IF certPEM.text # "pem"
           THEN SignatureResult(AbsentInfo, "failed to decode PEM certificate")
           ELSE IF ~certPEM.der
           THEN SignatureResult(AbsentInfo, "failed to parse certificate")
           ELSE InfoOf(certPEM.cert)

(***************************************************************************)
(* Signature manifests the registry may serve.                             *)
(***************************************************************************)
Extension(id, utf8, s) == [Id |-> id, Value |-> [utf8 |-> utf8, s |-> s]]

Certificates ==
  {Certificate(<<"user@example.com">>, <<"https://github.com/login">>,
               <<Extension(oidSigstoreIssuerV1, FALSE, "https://accounts.google.com")>>),
   Certificate(<<>>, <<"https://github.com/org/repo/.github/workflows/release.yml">>,
               <<Extension("2.5.29.17", TRUE, "san"),
                 Extension(oidSigstoreIssuerV2, TRUE, "https://token.actions.githubusercontent.com")>>),
   Certificate(<<"first@example.com", "second@example.com">>, <<>>, <<>>),
   Certificate(<<>>, <<>>, <<Extension(oidSigstoreIssuerV1, TRUE, "https://accounts.google.com")>>),
   Certificate(<<>>, <<>>, <<Extension(oidSigstoreIssuerV2, TRUE, "")>>),
   NoCertificate}

CertificateTexts ==
  {EmptyPEM, PEM("garbage", FALSE, NoCertificate), PEM("pem", FALSE, NoCertificate)}
    \cup {PEM("pem", TRUE, cert) : cert \in Certificates}

SignatureLayers ==
  {[Annotations |-> NoAnnotations]} \cup {[Annotations |-> K_certificate :> c] : c \in CertificateTexts}

SignatureManifests ==
  {Fail, [ok |-> TRUE, json |-> FALSE, Layers |-> <<>>]}
    \cup {[ok |-> TRUE, json |-> TRUE, Layers |-> ls] : ls \in SeqsUpTo(SignatureLayers, MaxLayers)}
VARIABLES
  cArtifactType, cAnnotations, cResult, cRepeat,
  xResp, xIndexAnnotations, xPc, xResult,
  mainPc, result, errMsg, descMediaType, hasIndex, manifests, loopIdx, cosignDigests,
  referrers, existingDigests, referrersMu, taskPc, pending, seen,
  infoReferrers, delivered,
  fManifest, fBlob, fPc, fResult,
  sManifest, sPc, sResult,
  rApi, rTag, rPc, rResult,
  registry,
  pManifests, pConfigOk, pTaskPc, pConfig, firstValidPlatformIdx, firstValidPlatformMu,
  pPc, PlatformDigest

classifyVars == <<cArtifactType, cAnnotations, cResult, cRepeat>>
extractVars == <<xResp, xIndexAnnotations, xPc, xResult>>
mainVars == <<mainPc, result, errMsg, descMediaType, hasIndex, manifests, loopIdx,
              cosignDigests, infoReferrers>>
accVars == <<referrers, existingDigests, referrersMu>>
taskVars == <<taskPc, pending, seen, delivered>>
inspectVars == <<mainVars, accVars, taskVars>>

contentVars == <<fManifest, fBlob, fPc, fResult>>
signatureVars == <<sManifest, sPc, sResult>>
fetchVars == <<rApi, rTag, rPc, rResult>>

populateVars == <<pManifests, pConfigOk, pTaskPc, pConfig, firstValidPlatformIdx,
                  firstValidPlatformMu, pPc, PlatformDigest>>

pureVars == <<classifyVars, extractVars, contentVars, signatureVars, fetchVars, registry,
              populateVars>>

vars == <<pureVars, inspectVars>>

NotCalled == "(not called)"
NoReferrers == [err |-> FALSE, referrers |-> <<>>]

(***************************************************************************)
(* The goroutines of InspectImage: the caller, the task for the top digest *)
(* and, per index entry i, an attestation task and a platform task.        *)
(***************************************************************************)
Main == <<"main", 0>>
IndexTask == <<"index", 0>>
Att(i) == <<"att", i>>
Plat(i) == <<"plat", i>>

Workers == {IndexTask} \cup {Att(i) : i \in 1..MaxManifests} \cup {Plat(i) : i \in 1..MaxManifests}
TaskIds == {Main} \cup Workers

Free == <<"free", 0>>

IdleClassify ==
  /\ cArtifactType = <<>>
  /\ cAnnotations = NoAnnotations
  /\ cResult = NotCalled
  /\ cRepeat = NotCalled

IdleExtract ==
  /\ xResp = Fail
  /\ xIndexAnnotations = NoAnnotations
  /\ xPc = "call"
  /\ xResult = NoReferrers

IdleContent ==
  /\ fManifest = Fail
  /\ fBlob = Fail
  /\ fPc = "call"
  /\ fResult = ContentResult("", "", NoBytes, NoDoc)

IdleSignature ==
  /\ sManifest = Fail
  /\ sPc = "call"
  /\ sResult = NoSignature

IdleFetch ==
  /\ rApi = Fail
  /\ rTag = Fail
  /\ rPc = "call"
  /\ rResult = NoFetch

(***************************************************************************)
(* The registry as InspectImage sees it: AnyRegistry answers each call in  *)
(* any way; a fixed registry answers each call the same way whenever it is *)
(* made.                                                                   *)
(***************************************************************************)
AnyRegistry == [fixed |-> FALSE]

IdleRegistry == registry = AnyRegistry

IdlePopulate ==
  /\ pManifests = <<>>
  /\ pConfigOk = <<>>
  /\ pTaskPc = <<>>
  /\ pConfig = <<>>
  /\ firstValidPlatformIdx = -1
  /\ firstValidPlatformMu = FALSE
  /\ pPc = "idle"
  /\ PlatformDigest = ""

IdleInspect ==
  /\ mainPc = "done"
  /\ result = "none"
  /\ errMsg = ""
  /\ descMediaType = ""
  /\ hasIndex = FALSE
  /\ manifests = <<>>
  /\ loopIdx = 1
  /\ cosignDigests = <<>>
  /\ infoReferrers = <<>>
  /\ referrers = <<>>
  /\ existingDigests = {}
  /\ referrersMu = Free
  /\ taskPc = [t \in TaskIds |-> "idle"]
  /\ pending = [t \in TaskIds |-> <<>>]
  /\ seen = [t \in TaskIds |-> FALSE]
  /\ delivered = {}

(***************************************************************************)
(* Calls of classifyArtifactType on one input: the call and a repeated     *)
(* call with the same arguments.                                           *)
(***************************************************************************)
InitClassify ==
  /\ cArtifactType \in ArtifactTypes
  /\ cAnnotations \in AnnotationSets
  /\ cResult = NotCalled
  /\ cRepeat = NotCalled
  /\ IdleExtract
  /\ IdleContent
  /\ IdleSignature
  /\ IdleFetch
  /\ IdleInspect
  /\ IdleRegistry
  /\ IdlePopulate

Classify ==
  /\ cResult = NotCalled
  /\ cResult' = classifyArtifactType(cArtifactType, cAnnotations)
  /\ UNCHANGED <<cArtifactType, cAnnotations, cRepeat, extractVars, contentVars, signatureVars,
               fetchVars, inspectVars, registry, populateVars>>

ClassifyAgain ==
  /\ cResult # NotCalled
  /\ cRepeat = NotCalled
  /\ cRepeat' = classifyArtifactType(cArtifactType, cAnnotations)
  /\ UNCHANGED <<cArtifactType, cAnnotations, cResult, extractVars, contentVars, signatureVars,
               fetchVars, inspectVars, registry, populateVars>>

NextClassify == Classify \/ ClassifyAgain

SpecClassify == InitClassify /\ [][NextClassify]_vars

(***************************************************************************)
(* One call of extractAttestationInfo on the manifest of AttestationEntry, *)
(* with its declared size and the annotations the caller carries for it.   *)
(***************************************************************************)
CarriedAnnotations == {NoAnnotations, AttestationEntry.Annotations}

InitExtract ==
  /\ xResp \in {Fail} \cup AttestationManifests
  /\ xIndexAnnotations \in CarriedAnnotations
  /\ xPc = "call"
  /\ xResult = NoReferrers
  /\ IdleClassify
  /\ IdleContent
  /\ IdleSignature
  /\ IdleFetch
  /\ IdleInspect
  /\ IdleRegistry
  /\ IdlePopulate

Extract ==
  /\ xPc = "call"
  /\ xPc' = "returned"
  /\ xResult' = extractAttestationInfo(xResp, AttestationEntry.Digest, AttestationEntry.Size,
                                      xIndexAnnotations)
  /\ UNCHANGED <<xResp, xIndexAnnotations, classifyVars, contentVars, signatureVars,
               fetchVars, inspectVars, registry, populateVars>>

NextExtract == Extract

SpecExtract == InitExtract /\ [][NextExtract]_vars


(***************************************************************************)
(* One call of FetchSBOMContent or of FetchVEXContent for the digest of    *)
(* AttestationEntry: fManifest is what the registry serves as its          *)
(* manifest, fBlob what it serves for the blob the call asks for.          *)
(***************************************************************************)
InitContent ==
  /\ fManifest \in {Fail} \cup AttestationManifests
  /\ fBlob \in BlobResponses
  /\ fPc = "call"
  /\ fResult = ContentResult("", "", NoBytes, NoDoc)
  /\ IdleClassify
  /\ IdleExtract
  /\ IdleSignature
  /\ IdleFetch
  /\ IdleInspect
  /\ IdleRegistry
  /\ IdlePopulate

FetchSBOM ==
  /\ fPc = "call"
  /\ fPc' = "sbom"
  /\ fResult' = FetchSBOMContent(fManifest, fBlob, AttestationEntry.Digest)
  /\ UNCHANGED <<fManifest, fBlob, classifyVars, extractVars, signatureVars, fetchVars,
                 inspectVars, registry, populateVars>>

FetchVEX ==
  /\ fPc = "call"
  /\ fPc' = "vex"
  /\ fResult' = FetchVEXContent(fManifest, fBlob, AttestationEntry.Digest)
  /\ UNCHANGED <<fManifest, fBlob, classifyVars, extractVars, signatureVars, fetchVars,
                 inspectVars, registry, populateVars>>

NextContent == FetchSBOM \/ FetchVEX

SpecContent == InitContent /\ [][NextContent]_vars

(***************************************************************************)
(* Discovery followed by retrieval: extractAttestationInfo on a manifest,  *)
(* then a content call for the digest of one of the sbom or vex referrers  *)
(* it returned.  Those digests are layer digests: the registry serves      *)
(* fBlob for them as a blob and nothing for them as a manifest.            *)
(***************************************************************************)
InitPipeline ==
  /\ xResp \in AttestationManifests
  /\ xIndexAnnotations \in CarriedAnnotations
  /\ xPc = "call"
  /\ xResult = NoReferrers
  /\ fManifest = Fail
  /\ fBlob \in {b \in BlobResponses : b.ok}
  /\ fPc = "call"
  /\ fResult = ContentResult("", "", NoBytes, NoDoc)
  /\ IdleClassify
  /\ IdleSignature
  /\ IdleFetch
  /\ IdleInspect
  /\ IdleRegistry
  /\ IdlePopulate

FetchDiscoveredSBOM(k) ==
  /\ xPc = "returned"
  /\ fPc = "call"
  /\ k \in 1..Len(xResult.referrers)
  /\ xResult.referrers[k].Type = "sbom"
  /\ fPc' = "sbom"
  /\ fResult' = FetchSBOMContent(fManifest, fBlob, xResult.referrers[k].Digest)
  /\ UNCHANGED <<fManifest, fBlob, classifyVars, extractVars, signatureVars, fetchVars,
                 inspectVars, registry, populateVars>>

FetchDiscoveredVEX(k) ==
  /\ xPc = "returned"
  /\ fPc = "call"
  /\ k \in 1..Len(xResult.referrers)
  /\ xResult.referrers[k].Type = "vex"
  /\ fPc' = "vex"
  /\ fResult' = FetchVEXContent(fManifest, fBlob, xResult.referrers[k].Digest)
  /\ UNCHANGED <<fManifest, fBlob, classifyVars, extractVars, signatureVars, fetchVars,
                 inspectVars, registry, populateVars>>

NextPipeline ==
  \/ Extract
  \/ \E k \in 1..(3 * MaxLayers) : FetchDiscoveredSBOM(k)
  \/ \E k \in 1..(3 * MaxLayers) : FetchDiscoveredVEX(k)

SpecPipeline == InitPipeline /\ [][NextPipeline]_vars

(***************************************************************************)
(* One call of extractSignatureInfo.                                       *)
(***************************************************************************)
InitSignature ==
  /\ sManifest \in SignatureManifests
  /\ sPc = "call"
  /\ sResult = NoSignature
  /\ IdleClassify
  /\ IdleExtract
  /\ IdleContent
  /\ IdleFetch
  /\ IdleInspect
  /\ IdleRegistry
  /\ IdlePopulate

ExtractSignature ==
  /\ sPc = "call"
  /\ sPc' = "returned"
  /\ sResult' = extractSignatureInfo(sManifest)
  /\ UNCHANGED <<sManifest, classifyVars, extractVars, contentVars, fetchVars, inspectVars,
                 registry, populateVars>>

NextSignature == ExtractSignature

SpecSignature == InitSignature /\ [][NextSignature]_vars

(***************************************************************************)
(* One call of fetchReferrers.                                             *)
(***************************************************************************)
ProbeLists ==
  {Fail} \cup {[ok |-> TRUE, Manifests |-> es] : es \in SeqsUpTo(EntryPool, MaxResp + 1)}

InitFetch ==
  /\ rApi \in ProbeLists
  /\ rTag \in ProbeLists
  /\ rPc = "call"
  /\ rResult = NoFetch
  /\ IdleClassify
  /\ IdleExtract
  /\ IdleContent
  /\ IdleSignature
  /\ IdleInspect
  /\ IdleRegistry
  /\ IdlePopulate

FetchReferrers ==
  /\ rPc = "call"
  /\ rPc' = "returned"
  /\ rResult' = fetchReferrers(rApi, rTag)
  /\ UNCHANGED <<rApi, rTag, classifyVars, extractVars, contentVars, signatureVars,
                 inspectVars, registry, populateVars>>

NextFetch == FetchReferrers

SpecFetch == InitFetch /\ [][NextFetch]_vars

(***************************************************************************)
(* populateFromIndex's parallel config fetches (client.go 465-583).  One   *)
(* goroutine per valid platform fetches the image config; one that         *)
(* succeeded stores it and, under firstValidPlatformMu, records its index  *)
(* if none is recorded yet.  pConfigOk is the registry's answer for each   *)
(* platform digest.  Indices are 1-based, -1 is the code's "none".         *)
(***************************************************************************)
MaxPlatforms == 3

IsValidPlatform(m) == m.Platform # NoPlatform /\ m.Platform # "unknown/unknown"

validPlatforms(ms) == {i \in 1..Len(ms) : IsValidPlatform(ms[i])}

InitPopulate ==
  /\ pManifests \in SeqsUpTo(ManifestPool, MaxPlatforms)
  /\ pConfigOk \in [{P1, P2} -> BOOLEAN]
  /\ pTaskPc = [i \in 1..Len(pManifests) |-> "none"]
  /\ pConfig = [i \in 1..Len(pManifests) |-> FALSE]
  /\ firstValidPlatformIdx = -1
  /\ firstValidPlatformMu = FALSE
  /\ pPc = "call"
  /\ PlatformDigest = ""
  /\ IdleClassify
  /\ IdleExtract
  /\ IdleContent
  /\ IdleSignature
  /\ IdleFetch
  /\ IdleInspect
  /\ IdleRegistry

otherVars ==
  <<classifyVars, extractVars, contentVars, signatureVars, fetchVars, inspectVars, registry>>

GoConfigFetches ==
  /\ pPc = "call"
  /\ pTaskPc' = [i \in 1..Len(pManifests) |->
                   IF i \in validPlatforms(pManifests) THEN "fetch" ELSE "none"]
  /\ pPc' = "wait"
  /\ UNCHANGED <<pManifests, pConfigOk, pConfig, firstValidPlatformIdx, firstValidPlatformMu,
                 PlatformDigest, otherVars>>

ConfigFetch(i) ==
  /\ i \in 1..Len(pManifests)
  /\ pTaskPc[i] = "fetch"
  /\ IF pConfigOk[pManifests[i].Digest]
     THEN /\ pConfig' = [pConfig EXCEPT ![i] = TRUE]
          /\ pTaskPc' = [pTaskPc EXCEPT ![i] = "track"]
     ELSE /\ pTaskPc' = [pTaskPc EXCEPT ![i] = "done"]
          /\ UNCHANGED pConfig
  /\ UNCHANGED <<pManifests, pConfigOk, firstValidPlatformIdx, firstValidPlatformMu, pPc,
                 PlatformDigest, otherVars>>

LockFirstValid(i) ==
  /\ i \in 1..Len(pManifests)
  /\ pTaskPc[i] = "track"
  /\ ~firstValidPlatformMu
  /\ firstValidPlatformMu' = TRUE
  /\ pTaskPc' = [pTaskPc EXCEPT ![i] = "locked"]
  /\ UNCHANGED <<pManifests, pConfigOk, pConfig, firstValidPlatformIdx, pPc, PlatformDigest,
                 otherVars>>

TrackFirstValid(i) ==
  /\ i \in 1..Len(pManifests)
  /\ pTaskPc[i] = "locked"
  /\ firstValidPlatformIdx' = IF firstValidPlatformIdx = -1 THEN i ELSE firstValidPlatformIdx
  /\ firstValidPlatformMu' = FALSE
  /\ pTaskPc' = [pTaskPc EXCEPT ![i] = "done"]
  /\ UNCHANGED <<pManifests, pConfigOk, pConfig, pPc, PlatformDigest, otherVars>>

WaitConfigs ==
  /\ pPc = "wait"
  /\ \A i \in 1..Len(pManifests) : pTaskPc[i] \in {"none", "done"}
  /\ PlatformDigest' = IF firstValidPlatformIdx >= 1
                       THEN pManifests[firstValidPlatformIdx].Digest
                       ELSE ""
  /\ pPc' = "returned"
  /\ UNCHANGED <<pManifests, pConfigOk, pTaskPc, pConfig, firstValidPlatformIdx,
                 firstValidPlatformMu, otherVars>>

NextPopulate ==
  \/ GoConfigFetches
  \/ \E i \in 1..MaxPlatforms : ConfigFetch(i)
  \/ \E i \in 1..MaxPlatforms : LockFirstValid(i)
  \/ \E i \in 1..MaxPlatforms : TrackFirstValid(i)
  \/ WaitConfigs

SpecPopulate == InitPopulate /\ [][NextPopulate]_vars
(***************************************************************************)
(* The accumulator of InspectImage (client.go 210-236): referrers,         *)
(* existingDigests and the mutex referrersMu.  addReferrer and             *)
(* addReferrers lock, test existingDigests, insert when the digest is new, *)
(* and unlock; addReferrers keeps the lock for its whole list.             *)
(***************************************************************************)
CanLockAlways(mu) == TRUE

CanLock(mu) == mu = Free

AccumulateLastWins(refs, digests, r, alreadySeen) ==
  IF alreadySeen
  THEN [referrers |-> [i \in 1..Len(refs) |-> IF refs[i].Digest = r.Digest THEN r ELSE refs[i]],
        existingDigests |-> digests]
  ELSE [referrers |-> Append(refs, r), existingDigests |-> digests \cup {r.Digest}]

Accumulate(refs, digests, r, alreadySeen) ==
  IF alreadySeen
  THEN [referrers |-> refs, existingDigests |-> digests]
  ELSE [referrers |-> Append(refs, r), existingDigests |-> digests \cup {r.Digest}]

Finished(t) == IF t = Main THEN "idle" ELSE "done"

KeepsLock(t) == t = IndexTask

Hand(t, rs) ==
  /\ pending' = [pending EXCEPT ![t] = rs]
  /\ taskPc' = [taskPc EXCEPT ![t] = IF rs = <<>> THEN Finished(t) ELSE "add"]

(***************************************************************************)
(* delivered records the digests that the probes which succeeded have      *)
(* reported so far; it is not a variable of the code.                      *)
(***************************************************************************)
Deliver(digests) == delivered' = delivered \cup digests

ProbeYield(resp) ==
  IF resp.ok THEN {resp.Manifests[i].Digest : i \in 1..Len(resp.Manifests)} ELSE {}

Lock(t) ==
  /\ taskPc[t] = "add"
  /\ CanLock(referrersMu)
  /\ referrersMu' = t
  /\ taskPc' = [taskPc EXCEPT ![t] = "locked"]
  /\ UNCHANGED <<mainVars, referrers, existingDigests, pending, seen, delivered>>
  /\ UNCHANGED pureVars

Check(t) ==
  /\ taskPc[t] = "locked"
  /\ seen' = [seen EXCEPT ![t] = Head(pending[t]).Digest \in existingDigests]
  /\ taskPc' = [taskPc EXCEPT ![t] = "insert"]
  /\ UNCHANGED <<mainVars, accVars, pending, delivered>>
  /\ UNCHANGED pureVars

Insert(t) ==
  /\ taskPc[t] = "insert"
  /\ LET acc == Accumulate(referrers, existingDigests, Head(pending[t]), seen[t])
         rest == Tail(pending[t])
     IN  /\ referrers' = acc.referrers
         /\ existingDigests' = acc.existingDigests
         /\ pending' = [pending EXCEPT ![t] = rest]
         /\ IF rest # <<>> /\ KeepsLock(t)
            THEN /\ taskPc' = [taskPc EXCEPT ![t] = "locked"]
                 /\ UNCHANGED referrersMu
            ELSE /\ taskPc' = [taskPc EXCEPT ![t] = IF rest = <<>> THEN Finished(t) ELSE "add"]
                 /\ referrersMu' = Free
  /\ seen' = [seen EXCEPT ![t] = FALSE]
  /\ UNCHANGED <<mainVars, delivered>>
  /\ UNCHANGED pureVars

(***************************************************************************)
(* The discovery tasks (client.go 238-354).                                *)
(***************************************************************************)
Stamp(rs, digest) ==
  [i \in 1..Len(rs) |->
     [rs[i] EXCEPT !.Annotations = WithAnnotation(rs[i].Annotations, K_refDigest, digest)]]

StampIfCarried(rs, annotations) ==
  IF K_refDigest \in DOMAIN annotations THEN Stamp(rs, annotations[K_refDigest]) ELSE rs

FetchOutcomes ==
  {LET fetched == fetchReferrers(apiResp, tagResp)
   IN  [referrers |-> fetched.referrers,
        yield |-> ProbeYield(apiResp)
                    \cup (IF fetched.tagFetched THEN ProbeYield(tagResp) ELSE {})] :
     apiResp \in ReferrerLists, tagResp \in ReferrerLists}

TopAnswers == IF registry.fixed THEN {registry.top} ELSE FetchOutcomes

PlatformAnswers == IF registry.fixed THEN {registry.plat} ELSE FetchOutcomes

IndexFetch ==
  /\ taskPc[IndexTask] = "fetch"
  /\ \E out \in TopAnswers :
       /\ Hand(IndexTask, out.referrers)
       /\ Deliver(out.yield)
  /\ UNCHANGED <<mainVars, accVars, seen>>
  /\ UNCHANGED pureVars

PlatformFetch(i) ==
  /\ taskPc[Plat(i)] = "fetch"
  /\ \E out \in PlatformAnswers :
       /\ Hand(Plat(i), Stamp(out.referrers, manifests[i].Digest))
       /\ Deliver(out.yield)
  /\ UNCHANGED <<mainVars, accVars, seen>>
  /\ UNCHANGED pureVars

AttestationCheck(i) ==
  /\ taskPc[Att(i)] = "check"
  /\ CanLock(referrersMu)
  /\ taskPc' = [taskPc EXCEPT ![Att(i)] =
                  IF manifests[i].Digest \in existingDigests THEN "done" ELSE "extract"]
  /\ UNCHANGED <<mainVars, accVars, pending, seen, delivered>>
  /\ UNCHANGED pureVars

ExtractOutcomes ==
  [m \in ManifestPool |->
     {extractAttestationInfo(resp, m.Digest, m.Size, m.Annotations) :
        resp \in InspectAttestations}]

AttestationExtract(i) ==
  /\ taskPc[Att(i)] = "extract"
  /\ \E ext \in ExtractOutcomes[manifests[i]] :
       /\ registry.fixed => ext = registry.att
       /\ Hand(Att(i), IF ext.err THEN <<>>
                       ELSE StampIfCarried(ext.referrers, manifests[i].Annotations))
       /\ Deliver(IF ext.err THEN {} ELSE DigestsOf(ext.referrers))
  /\ UNCHANGED <<mainVars, accVars, seen>>
  /\ UNCHANGED pureVars

(***************************************************************************)
(* InspectImage, the caller's steps (client.go 159-409).                   *)
(***************************************************************************)
ReturnError(msg) ==
  /\ mainPc' = "done"
  /\ result' = "error"
  /\ errMsg' = msg

ParseReference ==
  /\ mainPc = "parse"
  /\ \E ok \in BOOLEAN :
       IF ok
       THEN mainPc' = "resolve" /\ UNCHANGED <<result, errMsg>>
       ELSE ReturnError("invalid image reference")
  /\ UNCHANGED <<descMediaType, hasIndex, manifests, loopIdx, cosignDigests, infoReferrers,
                 accVars, taskVars>>
  /\ UNCHANGED pureVars

MediaTypes == {"index", "manifest", "other"}

GetDescriptor ==
  /\ mainPc = "resolve"
  /\ \/ ReturnError("failed to fetch image") /\ UNCHANGED descMediaType
     \/ \E mt \in MediaTypes :
          /\ descMediaType' = mt
          /\ mainPc' = "populate"
          /\ UNCHANGED <<result, errMsg>>
  /\ UNCHANGED <<hasIndex, manifests, loopIdx, cosignDigests, infoReferrers, accVars, taskVars>>
  /\ UNCHANGED pureVars

Populate ==
  /\ mainPc = "populate"
  /\ \/ /\ descMediaType = "index"
        /\ \/ ReturnError("failed to get image index") /\ UNCHANGED <<hasIndex, manifests>>
           \/ \E ms \in IndexShapes :
                /\ registry.fixed => ms = registry.manifests
                /\ hasIndex' = TRUE
                /\ manifests' = ms
                /\ mainPc' = "launch"
                /\ UNCHANGED <<result, errMsg>>
     \/ /\ descMediaType = "manifest"
        /\ \/ ReturnError("failed to get image")
           \/ ReturnError("failed to get config")
           \/ mainPc' = "launch" /\ UNCHANGED <<result, errMsg>>
        /\ UNCHANGED <<hasIndex, manifests>>
     \/ /\ descMediaType = "other"
        /\ mainPc' = "launch"
        /\ UNCHANGED <<result, errMsg, hasIndex, manifests>>
  /\ UNCHANGED <<descMediaType, loopIdx, cosignDigests, infoReferrers, accVars, taskVars>>
  /\ UNCHANGED pureVars

Launch ==
  /\ mainPc = "launch"
  /\ taskPc' = [taskPc EXCEPT ![IndexTask] = "fetch"]
  /\ loopIdx' = 1
  /\ mainPc' = "discover"
  /\ UNCHANGED <<result, errMsg, descMediaType, hasIndex, manifests, cosignDigests,
                 infoReferrers, accVars, pending, seen, delivered>>
  /\ UNCHANGED pureVars

LoopDone == ~hasIndex \/ loopIdx > Len(manifests)

IsIndexArtifact(m) == m.ArtifactType # <<>> /\ m.Platform = NoPlatform

IsAttestationManifestNever(m) == FALSE

IsAttestationManifest(m) == LookupStr(m.Annotations, K_refType) = "attestation-manifest"

IsProbedPlatform(m) ==
  /\ m.Digest # TopDigest
  /\ m.Digest # ""
  /\ m.Platform # NoPlatform
  /\ K_refType \notin DOMAIN m.Annotations

DiscoverArtifact ==
  /\ mainPc = "discover"
  /\ ~LoopDone
  /\ LET m == manifests[loopIdx]
     IN  IF IsIndexArtifact(m)
         THEN /\ Hand(Main, <<Referrer(classifyArtifactType(m.ArtifactType, m.Annotations),
                                       m.MediaType, m.Digest, m.Size, m.ArtifactType,
                                       m.Annotations)>>)
              /\ Deliver({m.Digest})
         ELSE UNCHANGED <<taskPc, pending, delivered>>
  /\ mainPc' = "spawn"
  /\ UNCHANGED <<result, errMsg, descMediaType, hasIndex, manifests, loopIdx, cosignDigests,
                 infoReferrers, accVars, seen>>
  /\ UNCHANGED pureVars

Spawn ==
  /\ mainPc = "spawn"
  /\ taskPc[Main] = "idle"
  /\ LET m == manifests[loopIdx]
     IN  taskPc' = [t \in TaskIds |->
                      IF t = Att(loopIdx) /\ IsAttestationManifest(m) THEN "check"
                      ELSE IF t = Plat(loopIdx) /\ IsProbedPlatform(m) THEN "fetch"
                      ELSE taskPc[t]]
  /\ loopIdx' = loopIdx + 1
  /\ mainPc' = "discover"
  /\ UNCHANGED <<result, errMsg, descMediaType, hasIndex, manifests, cosignDigests,
                 infoReferrers, accVars, pending, seen, delivered>>
  /\ UNCHANGED pureVars

RECURSIVE CosignPlatforms(_)
CosignPlatforms(ms) ==
  IF ms = <<>> THEN <<>>
  ELSE (IF Head(ms).Platform # NoPlatform /\ LookupStr(Head(ms).Annotations, K_refType) = ""
        THEN <<Head(ms).Digest>> ELSE <<>>) \o CosignPlatforms(Tail(ms))

JoinedNoWait(pcs) == TRUE

JoinedAllDone(pcs) == \A t \in Workers : pcs[t] = "done"

Joined(pcs) == \A t \in Workers : pcs[t] \in {"idle", "done"}

Wait ==
  /\ mainPc = "discover"
  /\ LoopDone
  /\ Joined(taskPc)
  /\ cosignDigests' = <<TopDigest>> \o (IF hasIndex THEN CosignPlatforms(manifests) ELSE <<>>)
  /\ loopIdx' = 1
  /\ mainPc' = "cosign"
  /\ UNCHANGED <<result, errMsg, descMediaType, hasIndex, manifests, infoReferrers,
                 accVars, taskVars>>
  /\ UNCHANGED pureVars

CosignYield(sigDesc, attDesc, attManifest) ==
  (IF sigDesc.ok THEN {sigDesc.Digest} ELSE {})
    \cup (IF attDesc.ok /\ attManifest.ok
          THEN DigestsOf(extractAttestationInfo(attManifest, attDesc.Digest, attDesc.Size,
                                                NoAnnotations).referrers)
          ELSE {})

CosignOutcome(d, sigDesc, attDesc, attManifest) ==
  [referrers |-> fetchCosignTagArtifacts(d, sigDesc, attDesc, attManifest),
   yield |-> CosignYield(sigDesc, attDesc, attManifest)]

CosignOutcomes ==
  [d \in {TopDigest, P1, P2, A1, X1} |->
     {CosignOutcome(d, sigDesc, attDesc, attManifest) :
        sigDesc \in TagDescriptors({R1}), attDesc \in TagDescriptors({T1}),
        attManifest \in CosignAttestations}]

CosignProbe ==
  /\ mainPc = "cosign"
  /\ taskPc[Main] = "idle"
  /\ loopIdx <= Len(cosignDigests)
  /\ \E out \in CosignOutcomes[cosignDigests[loopIdx]] :
       /\ registry.fixed =>
            out = CosignOutcome(cosignDigests[loopIdx], registry.sigTag, Fail, Fail)
       /\ Hand(Main, out.referrers)
       /\ Deliver(out.yield)
  /\ loopIdx' = loopIdx + 1
  /\ UNCHANGED <<mainPc, result, errMsg, descMediaType, hasIndex, manifests, cosignDigests,
                 infoReferrers, accVars, seen>>
  /\ UNCHANGED pureVars

CosignDone ==
  /\ mainPc = "cosign"
  /\ taskPc[Main] = "idle"
  /\ loopIdx > Len(cosignDigests)
  /\ loopIdx' = 1
  /\ mainPc' = "enrich"
  /\ UNCHANGED <<result, errMsg, descMediaType, hasIndex, manifests, cosignDigests,
                 infoReferrers, accVars, taskVars>>
  /\ UNCHANGED pureVars

SignatureOutcomes == {"error", NoSignatureInfo, "info"}

NeedsEnrichmentAlways(r) == TRUE

NeedsEnrichment(r) == r.Type = "signature"

EnrichErrorAlwaysFatal(out) == TRUE

EnrichErrorIsFatal(out) == FALSE

Enrich ==
  /\ mainPc = "enrich"
  /\ loopIdx <= Len(referrers)
  /\ IF NeedsEnrichment(referrers[loopIdx])
     THEN \E out \in SignatureOutcomes :
            /\ registry.fixed => out = registry.sig
            /\ IF out = "error"
               THEN /\ UNCHANGED referrers
                    /\ IF EnrichErrorIsFatal(out)
                       THEN ReturnError("failed to extract signature info") /\ UNCHANGED loopIdx
                       ELSE loopIdx' = loopIdx + 1 /\ UNCHANGED <<mainPc, result, errMsg>>
               ELSE /\ referrers' = [referrers EXCEPT ![loopIdx].SignatureInfo = out]
                    /\ loopIdx' = loopIdx + 1
                    /\ UNCHANGED <<mainPc, result, errMsg>>
     ELSE /\ loopIdx' = loopIdx + 1
          /\ UNCHANGED <<referrers, mainPc, result, errMsg>>
  /\ UNCHANGED <<descMediaType, hasIndex, manifests, cosignDigests,
                 infoReferrers, existingDigests, referrersMu, taskVars>>
  /\ UNCHANGED pureVars

Return ==
  /\ mainPc = "enrich"
  /\ loopIdx > Len(referrers)
  /\ infoReferrers' = referrers
  /\ result' = "ok"
  /\ mainPc' = "done"
  /\ UNCHANGED <<errMsg, descMediaType, hasIndex, manifests, loopIdx, cosignDigests,
                 accVars, taskVars>>
  /\ UNCHANGED pureVars

StartInspect ==
  /\ mainPc = "parse"
  /\ result = "none"
  /\ errMsg = ""
  /\ descMediaType = ""
  /\ hasIndex = FALSE
  /\ manifests = <<>>
  /\ loopIdx = 1
  /\ cosignDigests = <<>>
  /\ infoReferrers = <<>>
  /\ referrers = <<>>
  /\ existingDigests = {}
  /\ referrersMu = Free
  /\ taskPc = [t \in TaskIds |-> "idle"]
  /\ pending = [t \in TaskIds |-> <<>>]
  /\ seen = [t \in TaskIds |-> FALSE]
  /\ delivered = {}
  /\ IdleClassify
  /\ IdleExtract
  /\ IdleContent
  /\ IdleSignature
  /\ IdleFetch
  /\ IdlePopulate

Init == StartInspect /\ IdleRegistry

Next ==
  \/ ParseReference
  \/ GetDescriptor
  \/ Populate
  \/ Launch
  \/ DiscoverArtifact
  \/ Spawn
  \/ Wait
  \/ CosignProbe
  \/ CosignDone
  \/ Enrich
  \/ Return
  \/ IndexFetch
  \/ \E i \in 1..MaxManifests : PlatformFetch(i)
  \/ \E i \in 1..MaxManifests : AttestationCheck(i)
  \/ \E i \in 1..MaxManifests : AttestationExtract(i)
  \/ \E t \in TaskIds : Lock(t)
  \/ \E t \in TaskIds : Check(t)
  \/ \E t \in TaskIds : Insert(t)

Spec == Init /\ [][Next]_vars

(***************************************************************************)
(* InspectImage against a fixed registry: an index that embeds the         *)
(* attestation manifest, and one answer for each kind of call.             *)
(***************************************************************************)
FixedAttestations ==
  {extractAttestationInfo(resp, AttestationEntry.Digest, AttestationEntry.Size,
                          AttestationEntry.Annotations) :
     resp \in {Fail, [ok |-> TRUE, MediaType |-> mt_manifest, Layers |-> <<SpdxLayer>>],
               [ok |-> TRUE, MediaType |-> mt_manifest, Layers |-> <<SpdxLayer, SlsaLayer>>]}}

Registries ==
  {[fixed |-> TRUE, manifests |-> ms, top |-> top, plat |-> plat, att |-> att,
    sigTag |-> sigTag, sig |-> "info"] :
     ms \in {s \in IndexShapes : \E i \in 1..Len(s) : s[i] = AttestationEntry},
     top \in FetchOutcomes,
     plat \in {out \in FetchOutcomes : out.yield \subseteq {R1}},
     att \in FixedAttestations,
     sigTag \in TagDescriptors({R1})}

InitOrder == StartInspect /\ registry \in Registries

SpecOrder == InitOrder /\ [][Next]_vars

(***************************************************************************)
(* InspectImage when every transport call returns and the Go scheduler     *)
(* keeps running some runnable goroutine: a step that can be taken is      *)
(* eventually taken.                                                       *)
(***************************************************************************)
LiveRegistries ==
  {[fixed |-> TRUE, manifests |-> ms, top |-> top, plat |-> plat, att |-> att,
    sigTag |-> sigTag, sig |-> sig] :
     ms \in {s \in IndexShapes : Len(s) = MaxManifests /\ s[1].Digest = P1},
     top \in FetchOutcomes,
     plat \in FetchOutcomes,
     att \in FixedAttestations,
     sigTag \in TagDescriptors({R1}),
     sig \in SignatureOutcomes}

InitLive == StartInspect /\ registry \in LiveRegistries

SpecLive == InitLive /\ [][Next]_vars /\ WF_vars(Next)


(***************************************************************************)
(* Claims about InspectImage, checked under Spec.                          *)
(***************************************************************************)
NoDuplicates(rs) == \A i, j \in 1..Len(rs) : rs[i].Digest = rs[j].Digest => i = j

EntryOf(rs, digest) == rs[CHOOSE i \in 1..Len(rs) : rs[i].Digest = digest]

Link(r) == LookupStr(r.Annotations, K_refDigest)

\* C1: the accumulator and the referrer list InspectImage returns never hold
\* two entries with the same digest, and every digest recorded as seen has
\* exactly one entry, under every interleaving of the discovery tasks.
C1_NoDuplicateDigests ==
  /\ NoDuplicates(referrers)
  /\ existingDigests = DigestsOf(referrers)
  /\ result = "ok" => NoDuplicates(infoReferrers) /\ infoReferrers = referrers

\* C1 witness: a second platform probe reports a digest that another
\* platform's probe has already inserted, and its write is being skipped.
C1_Witness ==
  \E i, j \in 1..Len(manifests) :
    /\ manifests[i].Digest # manifests[j].Digest
    /\ taskPc[Plat(j)] = "insert"
    /\ seen[Plat(j)]
    /\ Head(pending[Plat(j)]).Digest \in DigestsOf(referrers)
    /\ Link(EntryOf(referrers, Head(pending[Plat(j)]).Digest)) = manifests[i].Digest

C3_PlatformLinkAlways ==
  [][\A i \in 1..MaxManifests :
       (taskPc[Plat(i)] = "insert" /\ taskPc'[Plat(i)] # "insert") =>
         Link(EntryOf(referrers', Head(pending[Plat(i)]).Digest)) = manifests[i].Digest]_vars

\* C7 (as claimed): a write whose digest is already present and which
\* carries a reference-digest annotation, while the existing entry has
\* none, leaves the existing entry with that annotation.
C7_AnnotationMerged ==
  [][\A t \in TaskIds :
       (/\ taskPc[t] = "insert"
        /\ taskPc'[t] # "insert"
        /\ seen[t]
        /\ Link(Head(pending[t])) # ""
        /\ Link(EntryOf(referrers, Head(pending[t]).Digest)) = "") =>
         Link(EntryOf(referrers', Head(pending[t]).Digest)) = Link(Head(pending[t]))]_vars

\* C8: first writer wins: no step changes the digest, type, media type,
\* size or artifact type of an entry that is in the accumulator, and no
\* entry is removed or moved.
C8_FirstWriterWins ==
  [][\A k \in 1..Len(referrers) :
       /\ k <= Len(referrers')
       /\ referrers'[k].Digest = referrers[k].Digest
       /\ referrers'[k].Type = referrers[k].Type
       /\ referrers'[k].MediaType = referrers[k].MediaType
       /\ referrers'[k].Size = referrers[k].Size
       /\ referrers'[k].ArtifactType = referrers[k].ArtifactType]_vars

\* C8 witness: a task is about to complete a write for a digest that is
\* already present with another type and artifact type.
C8_Witness ==
  \E t \in TaskIds :
    /\ taskPc[t] = "insert"
    /\ seen[t]
    /\ Head(pending[t]).Digest \in DigestsOf(referrers)
    /\ EntryOf(referrers, Head(pending[t]).Digest).Type # Head(pending[t]).Type
    /\ EntryOf(referrers, Head(pending[t]).Digest).ArtifactType # Head(pending[t]).ArtifactType

(***************************************************************************)
(* Claims about classifyArtifactType, checked under SpecClassify.          *)
(***************************************************************************)
Called == cResult # NotCalled

TypeHas(keywords) == ContainsAny(ToLower(cArtifactType), keywords)

SignatureWords == {kw_signature, kw_notary, kw_cosign}
SbomWords == {kw_sbom, kw_cyclonedx, kw_spdx}
VexWords == {kw_vex, kw_openvex}
ScanWords == {kw_vuln, kw_scan}
EnvelopeWords == {kw_sigstore_bundle, kw_attestation, kw_in_toto, kw_provenance}

NoTypeRule == ~TypeHas(SignatureWords \cup SbomWords \cup VexWords \cup ScanWords)

Hint == PredicateHint(cAnnotations)

HintHas(keywords) == ContainsAny(ToLower(Hint), keywords)

C5_TypeRulePrecedence ==
  Called =>
    /\ TypeHas(SignatureWords) => cResult = "signature"
    /\ (~TypeHas(SignatureWords) /\ TypeHas(SbomWords)) => cResult = "sbom"
    /\ (~TypeHas(SignatureWords \cup SbomWords) /\ TypeHas(VexWords)) => cResult = "vex"
    /\ (~TypeHas(SignatureWords \cup SbomWords \cup VexWords) /\ TypeHas(ScanWords))
         => cResult = "vulnerability-scan"
    /\ cArtifactType \in {frag_SBOM \o frag_vex, frag_OpenVEX \o frag_SBOM} => cResult = "sbom"
    /\ cArtifactType = frag_Notary \o frag_SBOM => cResult = "signature"
    /\ cArtifactType = frag_Scan \o frag_OpenVEX => cResult = "vex"

\* C5 witness: an upper-case SBOM keyword followed by a vex keyword, with a
\* VEX predicate hint in the annotations, was classified as sbom.
C5_Witness ==
  /\ cArtifactType = frag_SBOM \o frag_vex
  /\ Lookup(cAnnotations, K_bundlePredicate) = pt_openvex
  /\ cResult = "sbom"

\* C6: when no artifact-type rule matches and a predicate-type hint is
\* present, the hint decides by the order vex, sbom, provenance/slsa, vuln,
\* before the Sigstore-bundle and generic attestation rules: a VEX or SBOM
\* hint never yields attestation, whatever the envelope type.
C6_HintPrecedence ==
  (Called /\ NoTypeRule /\ Hint # <<>>) =>
    /\ HintHas(VexWords) => cResult = "vex"
    /\ (~HintHas(VexWords) /\ HintHas(SbomWords)) => cResult = "sbom"
    /\ (~HintHas(VexWords \cup SbomWords) /\ HintHas({kw_provenance, kw_slsa}))
         => cResult = "attestation"
    /\ (~HintHas(VexWords \cup SbomWords \cup {kw_provenance, kw_slsa}) /\ HintHas({kw_vuln}))
         => cResult = "vulnerability-scan"
    /\ HintHas(VexWords \cup SbomWords) => cResult # "attestation"

\* C6 witness: a Sigstore bundle whose content annotation says
\* message-signature and whose bundle predicate type is OpenVEX was
\* classified as vex.
C6_Witness ==
  /\ cArtifactType = at_sigstore_bundle
  /\ K_inToto \notin DOMAIN cAnnotations
  /\ Lookup(cAnnotations, K_bundlePredicate) = pt_openvex
  /\ Lookup(cAnnotations, K_bundleContent) = bc_message_signature
  /\ cResult = "vex"

(***************************************************************************)
(* Claims about extractAttestationInfo, checked under SpecExtract.         *)
(***************************************************************************)
Returned == xPc = "returned"

Emitted == xResult.referrers

LayerWords ==
  {kw_spdx, kw_cyclonedx, kw_sbom, kw_syft, kw_vex, kw_openvex, kw_provenance, kw_slsa}

Classified(layer) == ContainsAny(ToLower(LayerPredicateType(layer)), LayerWords)

AnyClassified == \E k \in 1..Len(xResp.Layers) : Classified(xResp.Layers[k])

\* C9: every referrer emitted for a classified layer has that layer's own
\* digest, size and media type, never the manifest's digest or declared
\* size; an SPDX layer followed by a SLSA provenance layer gives exactly
\* two referrers, sbom with the first layer's size and attestation with
\* the second's.
C9_LayerDigestAndSize ==
  (Returned /\ xResp.ok) =>
    /\ AnyClassified =>
         \A k \in 1..Len(Emitted) :
           /\ \E n \in 1..Len(xResp.Layers) :
                /\ Classified(xResp.Layers[n])
                /\ Emitted[k].Digest = xResp.Layers[n].Digest
                /\ Emitted[k].Size = xResp.Layers[n].Size
                /\ Emitted[k].ArtifactType = LayerPredicateType(xResp.Layers[n])
           /\ Emitted[k].Digest # AttestationEntry.Digest
           /\ Emitted[k].Size # AttestationEntry.Size
    /\ xResp.Layers = <<SpdxLayer, SlsaLayer>> =>
         /\ Len(Emitted) = 2
         /\ Emitted[1].Type = "sbom"
         /\ Emitted[1].Digest = SpdxLayer.Digest
         /\ Emitted[1].Size = SpdxLayer.Size
         /\ Emitted[2].Type = "attestation"
         /\ Emitted[2].Digest = SlsaLayer.Digest
         /\ Emitted[2].Size = SlsaLayer.Size

\* C9 witness: the manifest with an SPDX layer and a SLSA layer was
\* extracted into two referrers.
C9_Witness ==
  /\ Returned
  /\ xResp.ok
  /\ xResp.Layers = <<SpdxLayer, SlsaLayer>>
  /\ Len(Emitted) = 2

\* C10: a successful extraction in which no layer is classified, also of a
\* manifest without layers, returns exactly one referrer: attestation, with
\* the manifest's digest and the declared size; a successful extraction
\* never returns an empty sequence.
C10_GenericFallback ==
  (Returned /\ xResp.ok) =>
    /\ ~xResult.err
    /\ Len(Emitted) >= 1
    /\ ~AnyClassified =>
         /\ Len(Emitted) = 1
         /\ Emitted[1].Type = "attestation"
         /\ Emitted[1].Digest = AttestationEntry.Digest
         /\ Emitted[1].Size = AttestationEntry.Size
         /\ Emitted[1].Annotations = xIndexAnnotations

\* C10 witness: a manifest with one layer that has no predicate type was
\* extracted into the single generic referrer.
C10_Witness ==
  /\ Returned
  /\ xResp.ok
  /\ xResp.Layers = <<PlainLayer>>
  /\ Len(Emitted) = 1
  /\ Emitted[1].Digest = AttestationEntry.Digest

(***************************************************************************)
(* Content retrieval: FetchVEXContent and FetchSBOMContent.                *)
(***************************************************************************)

\* C11: a VEX document served raw, as the predicate of an in-toto statement,
\* or in a DSSE envelope whose base64 payload is that statement, unwraps to
\* the same predicate bytes and parses to the same VEXDocument.
C11_EnvelopeRoundTrip ==
  \A doc \in VexDocs :
    (fPc = "vex" /\ fBlob.ok /\ fBlob.data \in Encodings(doc)) =>
      /\ fResult.err = ""
      /\ fResult.data = doc
      /\ fResult.doc = ParseVEXDocument(doc).doc
      /\ fResult.doc.parsed

C11_Witness ==
  /\ fPc = "vex"
  /\ fBlob.ok
  /\ \E doc \in VexDocs :
       /\ fBlob.data = DSSEEnvelope(InTotoStatement(doc))
       /\ fResult.data = doc
       /\ fResult.doc.ID = "vex-1"
       /\ Len(fResult.doc.Statements) = 1

\* C12: unwrapping never fails: for every blob that was fetched, whatever
\* its bytes, the only error a content call can report is that of parsing
\* the unwrapped bytes as a VEX document, never one of the unwrap step.
C12_UnwrapNeverFails ==
  fBlob.ok =>
    /\ fPc = "vex" => fResult.err \in {"", "failed to parse VEX document"}
    /\ (fPc = "sbom" /\ fResult.fetched # "") => fResult.err = ""

(***************************************************************************)
(* extractSignatureInfo.                                                   *)
(***************************************************************************)
ParseFailure(resp) ==
  \/ ~resp.json
  \/ CertificatePEM(resp.Layers).text = "garbage"
  \/ CertificatePEM(resp.Layers).text = "pem" /\ ~CertificatePEM(resp.Layers).der

\* C13 as stated: when the signature manifest was fetched, extractSignatureInfo
\* returns no error to its caller, whatever fails to parse.
C13_NeverReturnsError ==
  (sPc = "returned" /\ sManifest.ok) => sResult.err = ""

\* C13: extractSignatureInfo never returns a SignatureInfo together with an
\* error; when the manifest JSON, the PEM block or the X.509 certificate
\* fails to parse it returns no SignatureInfo and the error of that step;
\* when there is no certificate it returns no SignatureInfo and no error.
C13_FailsClosed ==
  sPc = "returned" =>
    /\ sResult.err # "" => ~sResult.info.present
    /\ (sManifest.ok /\ ParseFailure(sManifest)) =>
         /\ ~sResult.info.present
         /\ sResult.err \in {"failed to parse signature manifest",
                             "failed to decode PEM certificate",
                             "failed to parse certificate"}
    /\ (sManifest.ok /\ sManifest.json /\ CertificatePEM(sManifest.Layers).text = "empty") =>
         sResult = NoSignature

C13_Witness ==
  /\ sPc = "returned"
  /\ sManifest.ok
  /\ sManifest.json
  /\ Len(sManifest.Layers) = 2
  /\ CertificatePEM(sManifest.Layers).text = "pem"
  /\ ~CertificatePEM(sManifest.Layers).der
  /\ sResult.err = "failed to parse certificate"
  /\ ~sResult.info.present

(***************************************************************************)
(* InspectImage: errors, the barrier, and what runs before and after it.   *)
(***************************************************************************)

C15_ExplicitNotFound ==
  fManifest.ok =>
    /\ (fPc = "sbom" /\ FirstLayer(SbomLayers(fManifest.Layers)) = 0) =>
         fResult.err = "no SBOM layer found in attestation manifest"
    /\ (fPc = "vex" /\ FirstLayer(VexLayers(fManifest.Layers)) = 0) =>
         fResult.err = "no VEX layer found in attestation manifest"

ReturnedOk == result = "ok"

PastBarrier == mainPc \in {"cosign", "enrich"} \/ ReturnedOk

\* C16: once InspectImage is past the barrier, and so when it assigns and
\* returns the referrer list, every discovery task it launched has completed:
\* none is running, holds the mutex or has a referrer left to add; the list
\* returned is the accumulator as it then stands.
C16_JoinBarrier ==
  /\ PastBarrier =>
       \A t \in Workers :
         /\ taskPc[t] \in {"idle", "done"}
         /\ pending[t] = <<>>
         /\ referrersMu # t
  /\ ReturnedOk => infoReferrers = referrers /\ \A t \in TaskIds : pending[t] = <<>>

C16_Witness ==
  /\ ReturnedOk
  /\ taskPc[IndexTask] = "done"
  /\ taskPc[Plat(1)] = "done"
  /\ taskPc[Att(2)] = "done"
  /\ Len(infoReferrers) >= 2

PlatformDigests(ms) ==
  {ms[j].Digest : j \in {k \in 1..Len(ms) : /\ ms[k].Platform \notin {NoPlatform, "unknown/unknown"}
                                            /\ K_refType \notin DOMAIN ms[k].Annotations}}

WellLinkedIndex(ms) ==
  \A j \in 1..Len(ms) :
    K_refDigest \in DOMAIN ms[j].Annotations => ms[j].Annotations[K_refDigest] \in PlatformDigests(ms)

\* C18: for a multi-platform image whose index links its attestation
\* manifests to platform manifests of the index, every
\* vnd.docker.reference.digest on a returned referrer is the digest of a
\* real platform manifest of the index; a referrer found only by a probe of
\* the index digest carries none.
C18_LinksArePlatformDigests ==
  (ReturnedOk /\ hasIndex /\ WellLinkedIndex(manifests)) =>
    \A i \in 1..Len(infoReferrers) :
      Link(infoReferrers[i]) # "" => Link(infoReferrers[i]) \in PlatformDigests(manifests)

(***************************************************************************)
(* fetchReferrers.                                                         *)
(***************************************************************************)
ApiCount(apiResp) == IF apiResp.ok THEN Len(apiResp.Manifests) ELSE 0

\* C19: the fallback tag is fetched exactly when the Referrers API failed
\* or returned no referrer; when the API returned at least one, exactly its
\* referrers are returned; fetchReferrers never returns an error.
C19_FallbackIffNeeded ==
  rPc = "returned" =>
    /\ rResult.tagFetched <=> (~rApi.ok \/ ApiCount(rApi) = 0)
    /\ ApiCount(rApi) > 0 => rResult.referrers = ToReferrers(rApi.Manifests)
    /\ ~rResult.err

C19_Witness ==
  /\ rPc = "returned"
  /\ rApi.ok
  /\ ApiCount(rApi) = 0
  /\ rTag.ok
  /\ rResult.tagFetched
  /\ Len(rResult.referrers) = 2

(***************************************************************************)
(* Failure isolation.                                                      *)
(***************************************************************************)
\* C20: every digest delivered by a probe that succeeded is in the
\* accumulator or waiting to be added to it, and is in the list InspectImage
\* returns, whichever other probes failed and in whatever order the tasks
\* finished.
C20_FailureIsolation ==
  /\ delivered \subseteq (DigestsOf(referrers) \cup UNION {DigestsOf(pending[t]) : t \in TaskIds})
  /\ ReturnedOk => delivered \subseteq DigestsOf(infoReferrers)

C20_Witness ==
  /\ ReturnedOk
  /\ Len(manifests) = 2
  /\ manifests[2] = AttestationEntry
  /\ taskPc[Plat(1)] = "done"
  /\ taskPc[Att(2)] = "done"
  /\ delivered = {R1}
  /\ R1 \in DigestsOf(infoReferrers)

(***************************************************************************)
(* Order of completion.                                                    *)
(***************************************************************************)
RECURSIVE LaunchOrderDigests(_, _, _)
LaunchOrderDigests(reg, ms, acc) ==
  IF ms = <<>> THEN acc
  ELSE LET m == Head(ms)
           artifact == IF IsIndexArtifact(m) THEN {m.Digest} ELSE {}
           extracted == IF /\ IsAttestationManifest(m)
                           /\ m.Digest \notin acc \cup artifact
                           /\ ~reg.att.err
                        THEN DigestsOf(reg.att.referrers) ELSE {}
           platform == IF IsProbedPlatform(m) THEN reg.plat.yield ELSE {}
       IN  LaunchOrderDigests(reg, Tail(ms), acc \cup artifact \cup extracted \cup platform)

CosignDigestsOf(reg) == IF reg.sigTag.ok THEN {reg.sigTag.Digest} ELSE {}

\* C21: against a fixed registry the set of digests InspectImage returns
\* does not depend on the interleaving of the discovery tasks: it is the
\* set obtained when every task runs to completion as soon as it is
\* launched.
C21_OrderIndependent ==
  (ReturnedOk /\ registry.fixed) =>
    DigestsOf(infoReferrers) =
      LaunchOrderDigests(registry, manifests, registry.top.yield) \cup CosignDigestsOf(registry)

(***************************************************************************)
(* The extractor against the classifier.                                   *)
(***************************************************************************)
RECURSIVE ClassifiedLayers(_)
ClassifiedLayers(layers) ==
  IF layers = <<>> THEN <<>>
  ELSE LET category == classifyArtifactType(<<>>, K_inToto :> LayerPredicateType(Head(layers)))
       IN  (IF category \in {"sbom", "vex", "attestation"}
            THEN <<[Type |-> category, Digest |-> Head(layers).Digest]>>
            ELSE <<>>) \o ClassifiedLayers(Tail(layers))

TypesAndDigests(rs) == [i \in 1..Len(rs) |-> [Type |-> rs[i].Type, Digest |-> rs[i].Digest]]

\* C22: the referrers extractAttestationInfo emits for the layers of a
\* manifest are, layer by layer, one referrer of the category that
\* classifyArtifactType gives the layer's predicate type when that category
\* is sbom, vex or attestation, and none otherwise.
C22_AgreesWithClassifier ==
  (Returned /\ xResp.ok /\ ClassifiedLayers(xResp.Layers) # <<>>) =>
    TypesAndDigests(xResult.referrers) = ClassifiedLayers(xResp.Layers)

(***************************************************************************)
(* From discovery to retrieval.                                            *)
(***************************************************************************)
\* C23: a content call made with the digest of an sbom or vex referrer that
\* extractAttestationInfo returned for a layer fetches that layer's blob:
\* it ends without a lookup error and with the content of that digest.
C23_DiscoverToFetch ==
  (Returned /\ fPc \in {"sbom", "vex"}) =>
    /\ \E k \in 1..Len(xResult.referrers) :
         /\ xResult.referrers[k].Type = fPc
         /\ fResult.fetched = xResult.referrers[k].Digest
    /\ fResult.err \in {"", "failed to parse VEX document", "failed to decode DSSE payload"}
    /\ fPc = "sbom" => fResult.data = UnwrapSBOM(fBlob.data)

(***************************************************************************)
(* Which field of a parsed envelope is unwrapped.                          *)
(***************************************************************************)
ParsedEnvelope(b) ==
  /\ ~DecodeError(b, VEXEnvelopeKinds)
  /\ StringField(b, "payload") # JStr("") => Base64Decode(StringField(b, "payload")).ok

PayloadOf(b) == UnwrapInner(Base64Decode(StringField(b, "payload")).bytes)

\* C24 as stated: for a parsed input whose payload, if any, is base64, the
\* unwrapped bytes come from the decoded payload when a payload is present,
\* from the top-level predicate only when there is no payload, and are the
\* input itself only when there is neither.
C24_PayloadFirst ==
  (fPc = "vex" /\ fBlob.ok /\ ParsedEnvelope(fBlob.data)) =>
    fResult.data =
      IF StringField(fBlob.data, "payload") # JStr("") THEN PayloadOf(fBlob.data)
      ELSE IF HasBytes(RawField(fBlob.data, "predicate")) THEN RawField(fBlob.data, "predicate")
      ELSE fBlob.data

\* C24: for a parsed input whose payload, if any, is base64, the unwrapped
\* bytes are the top-level predicate when there is one; they come from the
\* decoded payload (its inner predicate, or the decoded bytes when the inner
\* parse fails) only when there is no top-level predicate, and are the
\* input itself only when there is neither.
C24_PredicateFirst ==
  (fPc = "vex" /\ fBlob.ok /\ ParsedEnvelope(fBlob.data)) =>
    fResult.data =
      IF HasBytes(RawField(fBlob.data, "predicate")) THEN RawField(fBlob.data, "predicate")
      ELSE IF StringField(fBlob.data, "payload") # JStr("") THEN PayloadOf(fBlob.data)
      ELSE fBlob.data

C24_Witness ==
  /\ fPc = "vex"
  /\ fBlob.ok
  /\ ParsedEnvelope(fBlob.data)
  /\ StringField(fBlob.data, "payload") # JStr("")
  /\ HasBytes(RawField(fBlob.data, "predicate"))
  /\ fResult.doc.ID = "vex-6"

(***************************************************************************)
(* The classifier's hint and its sigstore-bundle rule.                     *)
(***************************************************************************)
HintKeys == {K_inToto, K_bundlePredicate, K_predicateType}

FirstHintKey(annotations) ==
  IF Lookup(annotations, K_inToto) # <<>> THEN K_inToto
  ELSE IF Lookup(annotations, K_bundlePredicate) # <<>> THEN K_bundlePredicate
  ELSE K_predicateType

OnlyFirstHint(annotations) ==
  [k \in DOMAIN annotations \ (HintKeys \ {FirstHintKey(annotations)}) |-> annotations[k]]

\* C25: the hint of classifyArtifactType is the first non-empty value among
\* in-toto.io/predicate-type, dev.sigstore.bundle.predicateType and
\* predicateType, in that order, and the category is the one the call gives
\* when the annotations of the later hint keys are removed.
C25_FirstNonEmptyHint ==
  cResult # NotCalled =>
    /\ PredicateHint(cAnnotations) = Lookup(cAnnotations, FirstHintKey(cAnnotations))
    /\ cResult = classifyArtifactType(cArtifactType, OnlyFirstHint(cAnnotations))

C25_Witness ==
  /\ cResult = "vex"
  /\ K_inToto \in DOMAIN cAnnotations
  /\ cAnnotations[K_inToto] = <<>>
  /\ Lookup(cAnnotations, K_bundlePredicate) = pt_openvex
  /\ Lookup(cAnnotations, K_predicateType) = pt_cyclonedx
  /\ ArtifactTypeRule(ToLower(cArtifactType)) = ""

TypeKeywords ==
  {kw_signature, kw_notary, kw_cosign, kw_sbom, kw_cyclonedx, kw_spdx, kw_vex, kw_openvex,
   kw_vuln, kw_scan}

HintKeywords ==
  {kw_vex, kw_openvex, kw_sbom, kw_cyclonedx, kw_spdx, kw_provenance, kw_slsa, kw_vuln}

UnhintedBundle(artifactType, annotations) ==
  /\ Contains(ToLower(artifactType), kw_sigstore_bundle)
  /\ ~ContainsAny(ToLower(artifactType), TypeKeywords)
  /\ ~ContainsAny(ToLower(Lookup(annotations, FirstHintKey(annotations))), HintKeywords)

\* C26: a sigstore.bundle artifact type that matches no artifact-type rule
\* and has no hint with a hint keyword is a signature when the
\* dev.sigstore.bundle.content annotation contains message-signature (in any
\* letter case) and an attestation otherwise.
C26_BundleRule ==
  (cResult # NotCalled /\ UnhintedBundle(cArtifactType, cAnnotations)) =>
    cResult = IF /\ K_bundleContent \in DOMAIN cAnnotations
                 /\ Contains(ToLower(cAnnotations[K_bundleContent]), kw_message_signature)
              THEN "signature"
              ELSE "attestation"

C26_Witness ==
  /\ cResult = "signature"
  /\ UnhintedBundle(cArtifactType, cAnnotations)
  /\ Lookup(cAnnotations, K_inToto) = pt_other
  /\ Lookup(cAnnotations, K_bundleContent) = bc_message_signature

ParsedCertificate ==
  /\ sPc = "returned"
  /\ sManifest.ok
  /\ sManifest.json
  /\ CertificatePEM(sManifest.Layers).text = "pem"
  /\ CertificatePEM(sManifest.Layers).der

SigningCertificate == CertificatePEM(sManifest.Layers).cert

FirstSAN(cert) ==
  IF cert.EmailAddresses # <<>> THEN Head(cert.EmailAddresses)
  ELSE IF cert.URIs # <<>> THEN Head(cert.URIs)
  ELSE ""

\* C27: for a successfully parsed certificate extractSignatureInfo returns no
\* error, the identity is the first email SAN if there is one and otherwise
\* the first URI SAN, and the SignatureInfo is absent exactly when the
\* identity and the OIDC issuer are both empty.
C27_IdentityAndAbsence ==
  ParsedCertificate =>
    /\ sResult.err = ""
    /\ sResult.info.present <=>
         ~(FirstSAN(SigningCertificate) = "" /\ Issuer(SigningCertificate) = "")
    /\ sResult.info.present =>
         /\ sResult.info.Identity = FirstSAN(SigningCertificate)
         /\ sResult.info.Issuer = Issuer(SigningCertificate)

C27_Witness ==
  /\ ParsedCertificate
  /\ Len(SigningCertificate.EmailAddresses) > 0
  /\ Len(SigningCertificate.URIs) > 0
  /\ sResult.info.present
  /\ sResult.info.Identity = "user@example.com"

C27_WitnessAbsent ==
  /\ ParsedCertificate
  /\ Len(SigningCertificate.Extensions) > 0
  /\ ~sResult.info.present

DiscoveryFinished ==
  /\ mainPc = "enrich"
  /\ \A t \in Workers : taskPc[t] \in {"idle", "done"}
  /\ \A t \in TaskIds : pending[t] = <<>>

OnlySignatureInfoDiffers(before, after) ==
  /\ Len(after) = Len(before)
  /\ \A i \in 1..Len(before) :
       /\ after[i] = [before[i] EXCEPT !.SignatureInfo = after[i].SignatureInfo]
       /\ after[i].SignatureInfo # before[i].SignatureInfo => before[i].Type = "signature"

Enriched(rs) == {i \in 1..Len(rs) : rs[i].SignatureInfo # NoSignatureInfo}

C28_EnrichStep ==
  /\ Enriched(referrers') # Enriched(referrers) => DiscoveryFinished
  /\ mainPc = "enrich" =>
       /\ OnlySignatureInfoDiffers(referrers, referrers')
       /\ mainPc' \in {"enrich", "done"}
       /\ result' \in {"none", "ok"}
       /\ result' = "ok" => infoReferrers' = referrers
       /\ loopIdx' # loopIdx =>
            /\ loopIdx' = loopIdx + 1
            /\ \A i \in 1..Len(referrers) : i # loopIdx => referrers'[i] = referrers[i]

\* C28: a SignatureInfo is set only once discovery has finished, and only
\* on a referrer of type signature; from then on a step changes nothing of
\* the referrer list but the SignatureInfo of the signature referrer under the
\* loop index, the call cannot fail any more, and it returns the whole list.
\* A referrer that is not a signature, or whose enrichment failed, has an
\* empty SignatureInfo in the result.
C28_EnrichmentFrame ==
  /\ [][C28_EnrichStep]_vars
  /\ [](\A i \in 1..Len(referrers) :
          referrers[i].SignatureInfo # NoSignatureInfo =>
            /\ referrers[i].Type = "signature"
            /\ mainPc \in {"enrich", "done"}
            /\ (mainPc = "enrich" => i < loopIdx))
  /\ [](errMsg # "failed to extract signature info")

C28_Witness ==
  /\ ReturnedOk
  /\ Len(infoReferrers) >= 2
  /\ \E i, j \in 1..Len(infoReferrers) :
       /\ i < j
       /\ infoReferrers[i].Type = "attestation"
       /\ infoReferrers[i].SignatureInfo = NoSignatureInfo
       /\ infoReferrers[j].Type = "signature"
       /\ infoReferrers[j].SignatureInfo = "info"

C28_WitnessFailed ==
  /\ ReturnedOk
  /\ \E i \in 1..Len(infoReferrers) :
       /\ infoReferrers[i].Type = "signature"
       /\ infoReferrers[i].SignatureInfo = NoSignatureInfo

FetchedPlatforms == {i \in validPlatforms(pManifests) : pConfigOk[pManifests[i].Digest]}

FirstFetchedPlatform ==
  IF FetchedPlatforms = {} THEN -1
  ELSE CHOOSE i \in FetchedPlatforms : \A j \in FetchedPlatforms : i <= j

\* C29: when populateFromIndex has waited for the config fetches, the default
\* platform is the first manifest in index order that is a valid platform and
\* whose config fetch succeeded, whatever the order in which the fetches
\* completed.
C29_FirstInIndexOrder ==
  pPc = "returned" =>
    PlatformDigest = IF FirstFetchedPlatform = -1 THEN ""
                     ELSE pManifests[FirstFetchedPlatform].Digest

Terminated ==
  /\ mainPc = "done"
  /\ result \in {"ok", "error"}
  /\ \A t \in Workers : taskPc[t] \in {"idle", "done"}
  /\ \A t \in TaskIds : pending[t] = <<>>
  /\ referrersMu = Free
  /\ result = "ok" => infoReferrers = referrers

\* C30: when every transport call returns and runnable goroutines keep being
\* scheduled, InspectImage terminates: every launched discovery task has
\* finished, the mutex is free, and a result or an error has been returned;
\* a result is returned only after the barrier, the cosign probes and the
\* enrichment loop.
C30_Terminates == <>Terminated

C30_Witness ==
  /\ Terminated
  /\ ReturnedOk
  /\ hasIndex
  /\ Len(cosignDigests) = 2
  /\ loopIdx > Len(referrers)
  /\ \E t \in Workers : taskPc[t] = "done"
  /\ \E i \in 1..Len(infoReferrers) : infoReferrers[i].SignatureInfo = "info"
====
